---- MODULE Spec2Model ----
(***************************************************************************)
(* A model of the XML-RPC codec of rust-xmlrpc (src/src/encoding.rs,       *)
(* src/src/protocol.rs): the Encoder, the Builder (parser) over the events *)
(* of the XML tokenizer, the stack-based Decoder and the envelope helper;  *)
(* and of the string path of the encoder of src/src/lib.rs.                *)
(*                                                                         *)
(* Text is a sequence of units.  A unit is one character ("<", "&", "a",   *)
(* "7", ...) or an indivisible run of letters ("int", "amp", "Foo").       *)
(* Strings of the program (std String, &str) are sequences of units too,   *)
(* so a "<" inside a string and the "<" of a tag are the same unit and an  *)
(* unescaped string is really seen as markup by the tokenizer.             *)
(***************************************************************************)
EXTENDS Integers, Sequences, FiniteSets, TLC

VARIABLES pc, val, want, out, encRes, via, tree, result, request, given, searched,
          before, call, after

vars == <<pc, val, want, out, encRes, via, tree, result, request, given, searched,
          before, call, after>>

(***************************************************************************)
(* Bounds of the model.                                                    *)
(***************************************************************************)
MaxStrLen == 2      \* longest string content drawn for Init
MaxSeqLen == 2      \* longest Vec / field list drawn for Init
MaxArgs == 2        \* most arguments given to one Request
MaxEnds == 2        \* most finalize calls on one Request

(***************************************************************************)
(* Results.  Ok(v) and Err(e) are Rust's Result; Panic is a thread panic   *)
(* (unwrap on None/Err, panic!), Hang is a loop that never returns.        *)
(***************************************************************************)
Ok(v) == [r |-> "ok", v |-> v]
Err(e) == [r |-> "err", v |-> e]
Panic(msg) == [r |-> "panic", v |-> msg]
Hang == [r |-> "hang", v |-> "loop"]
None == [r |-> "none", v |-> "none"]
Some(v) == [r |-> "some", v |-> v]
IsNone(o) == o.r = "none"
IsSome(o) == o.r = "some"

(***************************************************************************)
(* enum Xml (encoding.rs:38-48).  Object is a BTreeMap<String, Xml>: a     *)
(* sequence of [key, val] entries kept in ascending key order.             *)
(***************************************************************************)
XmlI32(n) == [k |-> "I32", v |-> n]
XmlF64(x) == [k |-> "F64", v |-> x]
XmlString(s) == [k |-> "String", v |-> s]
XmlBoolean(b) == [k |-> "Boolean", v |-> b]
XmlArray(a) == [k |-> "Array", v |-> a]
XmlObject(m) == [k |-> "Object", v |-> m]
XmlBase64(b) == [k |-> "Base64", v |-> b]
XmlDateTime == [k |-> "DateTime", v |-> <<>>]
XmlNull == [k |-> "Null", v |-> <<>>]

(***************************************************************************)
(* Order of units (byte order of the characters, lexicographic for runs).  *)
(***************************************************************************)
UnitOrder ==
  <<"\n", " ", "&", "-", ".", "/", "0", "1", "2", "3", "4", "5", "6", "7", "8", "9",
    ";", "<", ">", "Bar", "Foo", "a", "b", "c", "fields", "variant">>

UnitRank(u) ==
  IF \E i \in 1..Len(UnitOrder) : UnitOrder[i] = u
  THEN CHOOSE i \in 1..Len(UnitOrder) : UnitOrder[i] = u
  ELSE Len(UnitOrder) + 1

RECURSIVE StrLess(_, _)
\* s < t in the order of String (Ord for str: lexicographic)
StrLess(s, t) ==
  IF t = <<>> THEN FALSE
  ELSE IF s = <<>> THEN TRUE
  ELSE IF UnitRank(Head(s)) < UnitRank(Head(t)) THEN TRUE
  ELSE IF UnitRank(Head(s)) > UnitRank(Head(t)) THEN FALSE
  ELSE StrLess(Tail(s), Tail(t))

(***************************************************************************)
(* BTreeMap<String, _> (encoding.rs:51): get, insert (last write wins),    *)
(* remove; iteration is in ascending key order.                            *)
(***************************************************************************)
BTreeMap_new == <<>>

BTreeMap_contains(m, key) == \E i \in 1..Len(m) : m[i].key = key

BTreeMap_get(m, key) ==
  IF BTreeMap_contains(m, key)
  THEN Some(m[CHOOSE i \in 1..Len(m) : m[i].key = key].val)
  ELSE None

\* a map that keeps the order in which keys were first inserted (not what
\* BTreeMap does; used to tell the two orders apart)
BTreeMap_insert_unordered(m, key, value) ==
  IF BTreeMap_contains(m, key)
  THEN [i \in 1..Len(m) |-> IF m[i].key = key THEN [key |-> key, val |-> value] ELSE m[i]]
  ELSE Append(m, [key |-> key, val |-> value])

\* a map in which the first value inserted under a key stays
BTreeMap_insert_keep_first(m, key, value) ==
  IF BTreeMap_contains(m, key) THEN m
  ELSE LET n == Cardinality({i \in 1..Len(m) : StrLess(m[i].key, key)})
       IN  SubSeq(m, 1, n) \o <<[key |-> key, val |-> value]>> \o SubSeq(m, n + 1, Len(m))

BTreeMap_insert(m, key, value) ==
  IF BTreeMap_contains(m, key)
  THEN [i \in 1..Len(m) |-> IF m[i].key = key THEN [key |-> key, val |-> value] ELSE m[i]]
  ELSE LET n == Cardinality({i \in 1..Len(m) : StrLess(m[i].key, key)})
       IN  SubSeq(m, 1, n) \o <<[key |-> key, val |-> value]>> \o SubSeq(m, n + 1, Len(m))

BTreeMap_remove(m, key) ==
  IF BTreeMap_contains(m, key)
  THEN LET i == CHOOSE j \in 1..Len(m) : m[j].key = key
       IN  SubSeq(m, 1, i - 1) \o SubSeq(m, i + 1, Len(m))
  ELSE m

(***************************************************************************)
(* Formatting and parsing of numbers.                                      *)
(***************************************************************************)
I32_MAX == 2147483647
I32_MIN == -2147483647 - 1

Digits == <<"0", "1", "2", "3", "4", "5", "6", "7", "8", "9">>
IsDigit(u) == \E i \in 1..10 : Digits[i] = u
DigitVal(u) == (CHOOSE i \in 1..10 : Digits[i] = u) - 1

RECURSIVE NegDigits(_)
\* the decimal digits of -n, for n <= 0 (no overflow at I32_MIN)
NegDigits(n) ==
  IF n = 0 THEN <<>>
  ELSE LET d == (10 - (n % 10)) % 10
       IN  NegDigits((n + d) \div 10) \o <<Digits[d + 1]>>

\* format!("{}", v) for an i32
fmt_i32(n) ==
  IF n = 0 THEN <<"0">>
  ELSE IF n < 0 THEN <<"-">> \o NegDigits(n)
  ELSE NegDigits(-n)

RECURSIVE ParseDigits(_, _, _)
\* accumulate digits into acc with checked arithmetic; neg accumulates downwards
ParseDigits(s, acc, neg) ==
  IF s = <<>> THEN Some(acc)
  ELSE IF ~IsDigit(Head(s)) THEN None
  ELSE LET d == DigitVal(Head(s))
       IN  IF neg
           THEN IF acc < (I32_MIN + d + 9) \div 10 THEN None
                ELSE ParseDigits(Tail(s), acc * 10 - d, neg)
           ELSE IF acc > (I32_MAX - d) \div 10 THEN None
                ELSE ParseDigits(Tail(s), acc * 10 + d, neg)

\* s.parse::<i32>()
parse_i32(s) ==
  IF s = <<>> THEN None
  ELSE IF Head(s) = "-"
       THEN IF Tail(s) = <<>> THEN None ELSE ParseDigits(Tail(s), 0, TRUE)
       ELSE ParseDigits(s, 0, FALSE)

(***************************************************************************)
(* f64.  A finite double is [ip, fp]: the value ip + fp / 10^7 with ip an  *)
(* integer and 0 <= fp < 10^7 (seven decimal places), enough to hold       *)
(* values the code does not print exactly: the code's toolchain            *)
(* (fmt::String for f64, no precision given) prints at most six fractional *)
(* digits, rounded, without trailing zeros and without ".0" for integral   *)
(* values.                                                                 *)
(***************************************************************************)
F64Unit == 10 * 1000000
F64(ip, fp) == [nan |-> FALSE, ip |-> ip, fp |-> fp]
F64_NAN == [nan |-> TRUE, ip |-> 0, fp |-> 0]

RECURSIVE NatDigits(_)
NatDigits(n) == IF n < 10 THEN <<Digits[n + 1]>> ELSE NatDigits(n \div 10) \o <<Digits[(n % 10) + 1]>>

RECURSIVE StripZeros(_)
StripZeros(s) ==
  IF s # <<>> /\ s[Len(s)] = "0" THEN StripZeros(SubSeq(s, 1, Len(s) - 1)) ELSE s

RECURSIVE PadLeft(_, _)
PadLeft(s, n) == IF Len(s) >= n THEN s ELSE PadLeft(<<"0">> \o s, n)

RECURSIVE PadRight(_, _)
PadRight(s, n) == IF Len(s) >= n THEN s ELSE PadRight(s \o <<"0">>, n)

\* format!("{}", v) for an f64
fmt_f64(x) ==
  IF x.nan THEN <<"NaN">>
  ELSE LET neg == x.ip < 0
           \* the magnitude is -nip + mfp / 10^7, with nip <= 0
           mfp == IF neg /\ x.fp # 0 THEN F64Unit - x.fp ELSE x.fp
           nip == IF neg THEN (IF x.fp # 0 THEN x.ip + 1 ELSE x.ip) ELSE -x.ip
           r == (mfp + 5) \div 10
           carry == IF r = F64Unit \div 10 THEN 1 ELSE 0
           fd == IF carry = 1 THEN <<>> ELSE StripZeros(PadLeft(NatDigits(r), 6))
       IN  (IF neg THEN <<"-">> ELSE <<>>)
             \o (IF nip - carry = 0 THEN <<"0">> ELSE NegDigits(nip - carry))
             \o (IF fd = <<>> THEN <<>> ELSE <<".">> \o fd)

RECURSIVE DigitsToNat(_, _)
DigitsToNat(s, acc) ==
  IF s = <<>> THEN acc ELSE DigitsToNat(Tail(s), acc * 10 + DigitVal(Head(s)))

\* s.parse::<f64>() on decimal text [-]digits[.digits] (and "NaN"); digits past
\* the seventh decimal place are dropped, an integer part beyond i32 is refused
parse_f64(s) ==
  IF s = <<"NaN">> THEN Some(F64_NAN)
  ELSE
  LET neg == s # <<>> /\ Head(s) = "-"
      body == IF neg THEN Tail(s) ELSE s
      dots == {i \in 1..Len(body) : body[i] = "."}
      dot == IF dots = {} THEN Len(body) + 1 ELSE CHOOSE i \in dots : \A j \in dots : i <= j
      id == SubSeq(body, 1, dot - 1)
      fd == SubSeq(body, dot + 1, Len(body))
      ip == ParseDigits(id, 0, neg)
      fp == DigitsToNat(SubSeq(PadRight(fd, 7), 1, 7), 0)
  IN  IF \/ Cardinality(dots) > 1
         \/ (id = <<>> /\ fd = <<>>)
         \/ \E i \in 1..Len(fd) : ~IsDigit(fd[i])
         \/ IsNone(ip)
      THEN None
      ELSE IF neg /\ fp # 0 THEN Some(F64(ip.v - 1, F64Unit - fp))
      ELSE Some(F64(ip.v, fp))

(***************************************************************************)
(* The wire text written by the Encoder (encoding.rs:158-392).  A closure  *)
(* argument f is given as the text it writes (body): the Encoder only      *)
(* appends to its writer, so calling f(self) between two writes appends    *)
(* body there; an emit_ that does not call f drops body.                   *)
(***************************************************************************)
OpenTag(name) == <<"<", name, ">">>
CloseTag(name) == <<"<", "/", name, ">">>

\* xml::escape::escape_str as used by escape_str (encoding.rs:146-148)
EscapeUnit(u) ==
  CASE u = "<" -> <<"&", "lt", ";">>
    [] u = ">" -> <<"&", "gt", ";">>
    [] u = "&" -> <<"&", "amp", ";">>
    [] u = "\"" -> <<"&", "quot", ";">>
    [] u = "'" -> <<"&", "apos", ";">>
    [] OTHER -> <<u>>

RECURSIVE escape_str(_)
escape_str(v) == IF v = <<>> THEN <<>> ELSE EscapeUnit(Head(v)) \o escape_str(Tail(v))

escape_char(c) == escape_str(<<c>>)

emit_nil == <<"<", "nil", "/", ">">>
emit_i32(v) == OpenTag("int") \o fmt_i32(v) \o CloseTag("int")

\* a cast with a range check (not what the code does): a value outside
\* i32 is pinned to the nearest end of the range
as_i32_checked(ty, limbs) ==
  CASE ty \in {"u8", "u16"} -> limbs[1]
    [] ty = "i8" -> IF limbs[1] >= 128 THEN limbs[1] - 256 ELSE limbs[1]
    [] ty = "i16" -> IF limbs[1] >= 32768 THEN limbs[1] - 65536 ELSE limbs[1]
    [] ty \in {"u32", "u64", "usize"} ->
         IF limbs[2] >= 32768 \/ (Len(limbs) = 4 /\ (limbs[3] # 0 \/ limbs[4] # 0))
         THEN I32_MAX ELSE limbs[2] * 65536 + limbs[1]
    [] OTHER ->
         IF Len(limbs) = 4 /\ limbs[4] >= 32768 /\ ~(limbs[3] = 65535 /\ limbs[4] = 65535 /\ limbs[2] >= 32768)
         THEN I32_MIN
         ELSE IF Len(limbs) = 4 /\ limbs[4] < 32768 /\ ~(limbs[3] = 0 /\ limbs[4] = 0 /\ limbs[2] < 32768)
         THEN I32_MAX
         ELSE (IF limbs[2] >= 32768 THEN limbs[2] - 65536 ELSE limbs[2]) * 65536 + limbs[1]

\* v as i32 for v of another integer type ty.  v is its two's-complement
\* pattern in 16-bit limbs, least significant first: one limb for 8 and 16
\* bits, two for 32, four for 64.  A narrower v is sign- or zero-extended,
\* of a wider one the low 32 bits are kept.
as_i32(ty, limbs) ==
  CASE ty \in {"u8", "u16"} -> limbs[1]
    [] ty = "i8" -> IF limbs[1] >= 128 THEN limbs[1] - 256 ELSE limbs[1]
    [] ty = "i16" -> IF limbs[1] >= 32768 THEN limbs[1] - 65536 ELSE limbs[1]
    [] OTHER -> (IF limbs[2] >= 32768 THEN limbs[2] - 65536 ELSE limbs[2]) * 65536 + limbs[1]

\* emit_usize, emit_u64, emit_u32, emit_u16, emit_u8, emit_isize, emit_i64,
\* emit_i16, emit_i8: self.emit_i32(v as i32)
emit_int(ty, limbs) == emit_i32(as_i32(ty, limbs))

emit_bool(v) == OpenTag("boolean") \o (IF v THEN <<"1">> ELSE <<"0">>) \o CloseTag("boolean")
emit_f64(v) == OpenTag("double") \o fmt_f64(v) \o CloseTag("double")
emit_char(v) == OpenTag("string") \o escape_char(v) \o CloseTag("string")
emit_str(v) == OpenTag("string") \o escape_str(v) \o CloseTag("string")

\* lib.rs: escape_bytes writes the bytes as they are (lib.rs:79-85)
escape_bytes(bytes) == bytes
lib_escape_str(v) == escape_bytes(v)
lib_escape_char(c) == escape_bytes(<<c>>)
lib_emit_char(v) == OpenTag("string") \o lib_escape_char(v) \o CloseTag("string")
lib_emit_str(v) == OpenTag("string") \o lib_escape_str(v) \o CloseTag("string")

emit_enum(body) == body

emit_enum_variant(name, cnt, body) == IF cnt = 0 THEN emit_str(name) ELSE <<>>

emit_enum_variant_arg(idx, body) == (IF idx # 0 THEN <<",">> ELSE <<>>) \o body

emit_struct(body) == OpenTag("struct") \o body \o CloseTag("struct")

emit_struct_field(name, body) ==
  OpenTag("member") \o OpenTag("name") \o name \o CloseTag("name")
    \o OpenTag("value") \o body \o CloseTag("value") \o CloseTag("member")

\* the elements directly inside <array> (not what the code does)
emit_seq_nodata(body) == OpenTag("array") \o body \o CloseTag("array")

emit_seq(body) == OpenTag("array") \o OpenTag("data") \o body \o CloseTag("data") \o CloseTag("array")

emit_seq_elt(body) == OpenTag("value") \o body \o CloseTag("value")

emit_tuple(body) == emit_seq(body)
emit_tuple_arg(body) == emit_seq_elt(body)

emit_option(body) == body
emit_option_none == emit_nil
emit_option_some(body) == body

emit_map(body) == <<>>
emit_map_elt_key(body) == <<>>
emit_map_elt_val(body) == <<>>

(***************************************************************************)
(* Native values given to encode<T: Encodable>, each [k |-> kind, v |->    *)
(* payload], and their types, which say what decode::<T> asks for.         *)
(***************************************************************************)
TUnit == [k |-> "unit", v |-> <<>>]
TBool == [k |-> "bool", v |-> <<>>]
TI32 == [k |-> "i32", v |-> <<>>]
TF64 == [k |-> "f64", v |-> <<>>]
TStr == [k |-> "str", v |-> <<>>]
TChar == [k |-> "char", v |-> <<>>]
TVec(elem) == [k |-> "vec", v |-> elem]
TMap(elem) == [k |-> "map", v |-> elem]
TStruct(fields) == [k |-> "struct", v |-> fields]      \* fields: <<[name, ty]>>
TEnum(variants) == [k |-> "enum", v |-> variants]      \* variants: <<[name, args: <<ty>>]>>
TOption(inner) == [k |-> "option", v |-> inner]
TXml == [k |-> "xml", v |-> <<>>]
\* an integer type other than i32, of n limbs
TInt(ty, n) == [k |-> "int", v |-> [ty |-> ty, n |-> n]]

NUnit == [k |-> "unit", v |-> <<>>]
NBool(b) == [k |-> "bool", v |-> b]
NI32(n) == [k |-> "i32", v |-> n]
NF64(x) == [k |-> "f64", v |-> x]
NStr(s) == [k |-> "str", v |-> s]
NChar(c) == [k |-> "char", v |-> c]
NVec(elem, items) == [k |-> "vec", v |-> [elem |-> elem, items |-> items]]
NMap(elem, entries) == [k |-> "map", v |-> [elem |-> elem, entries |-> entries]]
NStruct(fields) == [k |-> "struct", v |-> fields]      \* fields: <<[name, val]>>
NEnum(variants, idx, args) == [k |-> "enum", v |-> [variants |-> variants, idx |-> idx, args |-> args]]
NOption(inner, opt) == [k |-> "option", v |-> [inner |-> inner, opt |-> opt]]
NXml(x) == [k |-> "xml", v |-> x]
\* an integer of the type ty other than i32, as the limbs of its pattern
NInt(ty, limbs) == [k |-> "int", v |-> [ty |-> ty, limbs |-> limbs]]
\* a value of a type with a hand-written impl Encodable, which calls
\* emit_struct and emit_struct_field with names of its own choosing
NImpl(fields) == [k |-> "impl", v |-> fields]

RECURSIVE TypeOf(_)
TypeOf(n) ==
  CASE n.k = "vec" -> TVec(n.v.elem)
    [] n.k = "map" -> TMap(n.v.elem)
    [] n.k = "struct" -> TStruct([i \in 1..Len(n.v) |-> [name |-> n.v[i].name, ty |-> TypeOf(n.v[i].val)]])
    [] n.k = "enum" -> TEnum(n.v.variants)
    [] n.k = "option" -> TOption(n.v.inner)
    [] n.k = "impl" -> TXml
    [] OTHER -> [k |-> n.k, v |-> <<>>]

(***************************************************************************)
(* Encodable::encode: the derived and library impls drive the Encoder,     *)
(* impl Encodable for Xml (encoding.rs:394-408) dispatches on the variant. *)
(***************************************************************************)
RECURSIVE Encodable_encode(_), Xml_encode(_), EncodeSeqElts(_), EncodeXmlElts(_)
RECURSIVE EncodeFieldsReversed(_)
RECURSIVE EncodeFields(_), EncodeMapElts(_), EncodeXmlMapElts(_), EncodeVariantArgs(_, _)

EncodeSeqElts(items) ==
  IF items = <<>> THEN <<>>
  ELSE emit_seq_elt(Encodable_encode(Head(items))) \o EncodeSeqElts(Tail(items))

EncodeXmlElts(items) ==
  IF items = <<>> THEN <<>>
  ELSE emit_seq_elt(Xml_encode(Head(items))) \o EncodeXmlElts(Tail(items))

\* the fields written last first (not what the derived impl does)
EncodeFieldsReversed(fields) ==
  IF fields = <<>> THEN <<>>
  ELSE EncodeFieldsReversed(Tail(fields))
         \o emit_struct_field(Head(fields).name, Encodable_encode(Head(fields).val))

EncodeFields(fields) ==
  IF fields = <<>> THEN <<>>
  ELSE emit_struct_field(Head(fields).name, Encodable_encode(Head(fields).val))
         \o EncodeFields(Tail(fields))

EncodeMapElts(entries) ==
  IF entries = <<>> THEN <<>>
  ELSE emit_map_elt_key(emit_str(Head(entries).key))
         \o emit_map_elt_val(Encodable_encode(Head(entries).val))
         \o EncodeMapElts(Tail(entries))

EncodeXmlMapElts(entries) ==
  IF entries = <<>> THEN <<>>
  ELSE emit_map_elt_key(emit_str(Head(entries).key))
         \o emit_map_elt_val(Xml_encode(Head(entries).val))
         \o EncodeXmlMapElts(Tail(entries))

EncodeVariantArgs(args, idx) ==
  IF args = <<>> THEN <<>>
  ELSE emit_enum_variant_arg(idx, Encodable_encode(Head(args)))
         \o EncodeVariantArgs(Tail(args), idx + 1)

Xml_encode(x) ==
  CASE x.k = "I32" -> emit_i32(x.v)
    [] x.k = "F64" -> emit_f64(x.v)
    [] x.k = "String" -> emit_str(x.v)
    [] x.k = "Boolean" -> emit_bool(x.v)
    [] x.k = "Array" -> emit_seq(EncodeXmlElts(x.v))
    [] x.k = "Object" -> emit_map(EncodeXmlMapElts(x.v))
    [] x.k = "Null" -> emit_nil
    [] OTHER -> <<>>

Encodable_encode(n) ==
  CASE n.k = "unit" -> emit_nil
    [] n.k = "bool" -> emit_bool(n.v)
    [] n.k = "i32" -> emit_i32(n.v)
    [] n.k = "int" -> emit_int(n.v.ty, n.v.limbs)
    [] n.k = "f64" -> emit_f64(n.v)
    [] n.k = "str" -> emit_str(n.v)
    [] n.k = "char" -> emit_char(n.v)
    [] n.k = "vec" -> emit_seq(EncodeSeqElts(n.v.items))
    [] n.k = "struct" -> emit_struct(EncodeFields(n.v))
    [] n.k = "impl" -> emit_struct(EncodeFields(n.v))
    [] n.k = "map" -> emit_map(EncodeMapElts(n.v.entries))
    [] n.k = "enum" ->
         emit_enum(emit_enum_variant(n.v.variants[n.v.idx].name, Len(n.v.args),
                                     EncodeVariantArgs(n.v.args, 0)))
    [] n.k = "option" ->
         emit_option(IF IsNone(n.v.opt) THEN emit_option_none
                     ELSE emit_option_some(Encodable_encode(n.v.opt.v)))
    [] n.k = "xml" -> Xml_encode(n.v)

\* pub fn encode: the String the Encoder wrote; the Result of encode is dropped
encode(object) == Encodable_encode(object)

(***************************************************************************)
(* The XML tokenizer (xml::EventReader) whose events Builder::bump reads:  *)
(* StartDocument first, StartElement / EndElement per tag (both for an     *)
(* empty-element tag), Characters for character data with its entity       *)
(* references decoded, Whitespace for character data that is all white     *)
(* space, no event for empty content, Error for malformed input (sticky),  *)
(* EndDocument at the end (returned again on every later call).            *)
(***************************************************************************)
Ev(e, x) == [e |-> e, x |-> x]
XmlDecl == "<?xml version=\"1.0\"?>"
WhiteUnits == {" ", "\n", "\t"}
NotNameUnits ==
  {"<", ">", "/", "&", ";", ",", "-", ".", "\"", "'", "?", XmlDecl} \cup WhiteUnits
     \cup {Digits[i] : i \in 1..10}
IsName(u) == u \notin NotNameUnits
Entities == {"lt", "gt", "amp", "quot", "apos"}
EntityUnit(name) ==
  CASE name = "lt" -> "<" [] name = "gt" -> ">" [] name = "amp" -> "&"
    [] name = "quot" -> "\"" [] name = "apos" -> "'"

\* the event for buffered character data when markup (or the end) follows
FlushChars(buf, open) ==
  IF buf = <<>> THEN <<>>
  ELSE IF \A i \in 1..Len(buf) : buf[i] \in WhiteUnits THEN <<Ev("Whitespace", buf)>>
  ELSE IF open = <<>> THEN <<Ev("Error", <<>>)>>
  ELSE <<Ev("Characters", buf)>>

HasError(evs) == \E i \in 1..Len(evs) : evs[i].e = "Error"

RECURSIVE Scan(_, _, _, _)
Scan(t, i, buf, open) ==
  LET flush == FlushChars(buf, open)
      After(evs, rest) == IF HasError(flush) THEN flush ELSE flush \o evs \o rest
      Bad == IF HasError(flush) THEN flush ELSE flush \o <<Ev("Error", <<>>)>>
  IN
  IF i > Len(t)
  THEN IF open # <<>> THEN Bad ELSE flush
  ELSE IF t[i] = "<"
  THEN IF i + 2 <= Len(t) /\ IsName(t[i + 1]) /\ t[i + 2] = ">"
       THEN IF HasError(flush) THEN flush
            ELSE flush \o <<Ev("StartElement", t[i + 1])>>
                   \o Scan(t, i + 3, <<>>, Append(open, t[i + 1]))
       ELSE IF i + 3 <= Len(t) /\ IsName(t[i + 1]) /\ t[i + 2] = "/" /\ t[i + 3] = ">"
       THEN IF HasError(flush) THEN flush
            ELSE flush \o <<Ev("StartElement", t[i + 1]), Ev("EndElement", t[i + 1])>>
                   \o Scan(t, i + 4, <<>>, open)
       ELSE IF /\ i + 3 <= Len(t) /\ t[i + 1] = "/" /\ IsName(t[i + 2]) /\ t[i + 3] = ">"
               /\ open # <<>> /\ open[Len(open)] = t[i + 2]
       THEN IF HasError(flush) THEN flush
            ELSE flush \o <<Ev("EndElement", t[i + 2])>>
                   \o Scan(t, i + 4, <<>>, SubSeq(open, 1, Len(open) - 1))
       ELSE Bad
  ELSE IF t[i] = "&"
  THEN IF i + 2 <= Len(t) /\ t[i + 1] \in Entities /\ t[i + 2] = ";"
       THEN Scan(t, i + 3, Append(buf, EntityUnit(t[i + 1])), open)
       ELSE Bad
  ELSE IF t[i] = XmlDecl THEN Bad
  ELSE Scan(t, i + 1, Append(buf, t[i]), open)

\* the events of a document; a document without a root element is an Error
Tokenize(t) ==
  LET body == IF t # <<>> /\ t[1] = XmlDecl THEN Tail(t) ELSE t
      evs == Scan(body, 1, <<>>, <<>>)
  IN  <<Ev("StartDocument", <<>>)>>
        \o (IF HasError(evs) \/ \E i \in 1..Len(evs) : evs[i].e = "StartElement"
            THEN evs ELSE evs \o <<Ev("Error", <<>>)>>)

(***************************************************************************)
(* enum XmlEvent (encoding.rs:609-640), the Builder's token, and the tag   *)
(* classifier (encoding.rs:867-936).                                       *)
(***************************************************************************)
Tok(k) == [k |-> k, v |-> <<>>]
TokV(k, v) == [k |-> k, v |-> v]
\* token == Some(XmlEvent::kind), by the variant alone
TokIs(token, kind) == IsSome(token) /\ token.v.k = kind

parse_bool_value(s) ==
  CASE s = <<"0">> -> Some(TokV("BooleanValue", FALSE))
    [] s = <<"1">> -> Some(TokV("BooleanValue", TRUE))
    [] OTHER -> None

parse_i32_value(s) ==
  LET n == parse_i32(s) IN IF IsNone(n) THEN None ELSE Some(TokV("I32Value", n.v))

parse_f64_value(s) ==
  LET n == parse_f64(s) IN IF IsNone(n) THEN None ELSE Some(TokV("F64Value", n.v))

parse_string_value(s) == Some(TokV("StringValue", s))

parse_name_value(s) == Some(TokV("NameValue", s))

TagKinds ==
  [struct |-> "Object", member |-> "Member", name |-> "Name", value |-> "Value",
   array |-> "Array", data |-> "Data", boolean |-> "Boolean", int |-> "I32",
   double |-> "F64", string |-> "String", nil |-> "Null"]

parse_tag_start(name) ==
  IF name \in DOMAIN TagKinds THEN Some(Tok(TagKinds[name] \o "Start")) ELSE None

parse_tag_end(name) ==
  IF name \in DOMAIN TagKinds THEN Some(Tok(TagKinds[name] \o "End")) ELSE None

parse_tag_characters(s, token) ==
  CASE TokIs(token, "BooleanStart") -> parse_bool_value(s)
    [] TokIs(token, "I32Start") -> parse_i32_value(s)
    [] TokIs(token, "F64Start") -> parse_f64_value(s)
    [] TokIs(token, "StringStart") -> parse_string_value(s)
    [] TokIs(token, "NameStart") -> parse_name_value(s)
    [] OTHER -> None

(***************************************************************************)
(* struct Builder (encoding.rs:642-937).  ev is the event stream of the    *)
(* parser; a Builder state b is [pos, token]: the index of the next event  *)
(* and the single lookahead token (None or Some(XmlEvent)).  Each build_   *)
(* operator returns [res, b]: its result and the Builder state it leaves.  *)
(***************************************************************************)
SyntaxError(code) == [k |-> "SyntaxError", v |-> code]
InvalidSyntax == "InvalidSyntax"
EOFWhileParsingValue == "EOFWhileParsingValue"

Builder_new == [pos |-> 1, token |-> None]

\* self.parser.next()
Parser_next(ev, pos) ==
  IF pos <= Len(ev) THEN [ev |-> ev[pos], pos |-> pos + 1]
  ELSE IF ev # <<>> /\ ev[Len(ev)].e = "Error" THEN [ev |-> Ev("Error", <<>>), pos |-> pos]
  ELSE [ev |-> Ev("EndDocument", <<>>), pos |-> pos]

RECURSIVE SkipStartDocument(_, _)
\* the StartDocument arm of bump: self.bump() again
SkipStartDocument(ev, n) ==
  IF n.ev.e = "StartDocument" THEN SkipStartDocument(ev, Parser_next(ev, n.pos)) ELSE n

\* the match of bump on the event n.ev, with the current token as context
TokenOf(n, token) ==
  [pos |-> n.pos,
   token |-> CASE n.ev.e = "StartElement" -> parse_tag_start(n.ev.x)
               [] n.ev.e = "EndElement" -> parse_tag_end(n.ev.x)
               [] n.ev.e = "Characters" -> parse_tag_characters(n.ev.x, token)
               [] n.ev.e = "EndDocument" -> None
               [] OTHER -> None]

bump(ev, b) == TokenOf(SkipStartDocument(ev, Parser_next(ev, b.pos)), b.token)

Ret(res, b) == [res |-> res, b |-> b]

\* the closing-tag arm shared by the scalar builders
ExpectEnd(b, endKind, value) ==
  IF TokIs(b.token, endKind) THEN Ret(value, b)
  ELSE Ret(Err(SyntaxError(InvalidSyntax)), b)

build_nil(ev, b) == ExpectEnd(bump(ev, b), "NullEnd", Ok(XmlNull))

\* the value arm shared by the scalar builders, then the closing tag
ScalarValue(ev, b, valueKind, endKind, xmlKind) ==
  ExpectEnd(bump(ev, b), endKind,
            IF TokIs(b.token, valueKind)
            THEN Ok([k |-> xmlKind, v |-> b.token.v.v])
            ELSE Err(SyntaxError(InvalidSyntax)))

BuildScalar(ev, b, valueKind, endKind, xmlKind) ==
  ScalarValue(ev, bump(ev, b), valueKind, endKind, xmlKind)

build_boolean(ev, b) == BuildScalar(ev, b, "BooleanValue", "BooleanEnd", "Boolean")
build_i32(ev, b) == BuildScalar(ev, b, "I32Value", "I32End", "I32")
build_f64(ev, b) == BuildScalar(ev, b, "F64Value", "F64End", "F64")
build_string(ev, b) == BuildScalar(ev, b, "StringValue", "StringEnd", "String")

RECURSIVE build_value(_, _), build_object_loop(_, _, _), build_array_loop(_, _, _)
RECURSIVE MemberName(_, _, _), MemberNameValue(_, _, _), MemberNameEnd(_, _, _, _)
RECURSIVE MemberValue(_, _, _, _), MemberValueEnd(_, _, _, _), MemberEnd(_, _, _, _, _)
RECURSIVE ArrayElt(_, _, _), ArrayEltEnd(_, _, _, _)

BadSyntax(b) == Ret(Err(SyntaxError(InvalidSyntax)), b)

build_object(ev, b) == build_object_loop(ev, bump(ev, b), BTreeMap_new)

build_array(ev, b) == build_array_loop(ev, bump(ev, b), <<>>)

build_value(ev, b) ==
  IF IsNone(b.token) THEN Ret(Err(SyntaxError(EOFWhileParsingValue)), b)
  ELSE CASE b.token.v.k = "ObjectStart" -> build_object(ev, b)
         [] b.token.v.k = "ArrayStart" -> build_array(ev, b)
         [] b.token.v.k = "NullStart" -> build_nil(ev, b)
         [] b.token.v.k = "I32Start" -> build_i32(ev, b)
         [] b.token.v.k = "F64Start" -> build_f64(ev, b)
         [] b.token.v.k = "BooleanStart" -> build_boolean(ev, b)
         [] b.token.v.k = "StringStart" -> build_string(ev, b)
         [] b.token.v.k = "Error" -> Ret(Err(b.token.v.v), b)
         [] OTHER -> BadSyntax(b)

\* a loop that passes over a token it does not know, as build_array does
\* (not what build_object does)
build_object_loop_lenient(ev, b, values) ==
  IF TokIs(b.token, "ObjectEnd") THEN Ret(Ok(XmlObject(values)), b)
  ELSE IF TokIs(b.token, "MemberStart") THEN MemberName(ev, bump(ev, b), values)
  ELSE IF IsNone(b.token) /\ b.pos <= Len(ev) THEN build_object_loop(ev, bump(ev, b), values)
  ELSE BadSyntax(b)

\* the loop of build_object, from the token at the member position
build_object_loop(ev, b, values) ==
  IF TokIs(b.token, "ObjectEnd") THEN Ret(Ok(XmlObject(values)), b)
  ELSE IF ~TokIs(b.token, "MemberStart") THEN BadSyntax(b)
  ELSE MemberName(ev, bump(ev, b), values)

\* looking for <name>
MemberName(ev, b, values) ==
  IF ~TokIs(b.token, "NameStart") THEN BadSyntax(b)
  ELSE MemberNameValue(ev, bump(ev, b), values)

\* looking for string value inside name
MemberNameValue(ev, b, values) ==
  IF ~TokIs(b.token, "NameValue") THEN BadSyntax(b)
  ELSE MemberNameEnd(ev, bump(ev, b), b.token.v.v, values)

\* looking for </name>
MemberNameEnd(ev, b, key, values) ==
  IF ~TokIs(b.token, "NameEnd") THEN BadSyntax(b)
  ELSE MemberValue(ev, bump(ev, b), key, values)

\* looking for <value>, then parse whatever value is inside
MemberValue(ev, b, key, values) ==
  IF ~TokIs(b.token, "ValueStart") THEN BadSyntax(b)
  ELSE MemberValueEnd(ev, build_value(ev, bump(ev, b)), key, values)

\* values.insert(key, value), then looking for </value>
MemberValueEnd(ev, inner, key, values) ==
  IF inner.res.r # "ok" THEN inner
  ELSE MemberEnd(ev, bump(ev, inner.b), key, inner.res.v, values)

\* looking for </member>
MemberEnd(ev, b, key, value, values) ==
  IF ~TokIs(b.token, "ValueEnd") THEN BadSyntax(b)
  ELSE IF ~TokIs(bump(ev, b).token, "MemberEnd") THEN BadSyntax(bump(ev, b))
  ELSE build_object_loop(ev, bump(ev, bump(ev, b)), BTreeMap_insert(values, key, value))

\* the loop of build_array.  With the token None and the stream exhausted,
\* bump changes nothing and the loop never returns.
build_array_loop(ev, b, values) ==
  IF TokIs(b.token, "ArrayEnd") THEN Ret(Ok(XmlArray(values)), b)
  ELSE IF TokIs(b.token, "ValueStart")
  THEN ArrayElt(ev, build_value(ev, bump(ev, b)), values)
  ELSE IF IsNone(b.token) /\ b.pos > Len(ev) THEN Ret(Hang, b)
  ELSE build_array_loop(ev, bump(ev, b), values)

\* values.push(v), then looking for </value>
ArrayElt(ev, inner, values) ==
  IF inner.res.r # "ok" THEN inner
  ELSE ArrayEltEnd(ev, bump(ev, inner.b), inner.res.v, values)

ArrayEltEnd(ev, b, v, values) ==
  IF ~TokIs(b.token, "ValueEnd") THEN BadSyntax(b)
  ELSE build_array_loop(ev, bump(ev, b), Append(values, v))

\* Builder::build: a token left after the root value is a panic
Finish(r, b) ==
  IF r.res.r = "hang" THEN Hang
  ELSE IF IsNone(b.token) THEN r.res
  ELSE IF b.token.v.k = "Error" THEN Err(b.token.v.v)
  ELSE Panic("unexpected token")

BuildRoot(ev, r) == Finish(r, bump(ev, r.b))

build(ev) == BuildRoot(ev, build_value(ev, bump(ev, Builder_new)))

\* Xml::from_str
from_str(s) == build(Tokenize(s))

(***************************************************************************)
(* struct Decoder (encoding.rs:940-1249).  The stack is a sequence whose   *)
(* last element is the top.  Each read returns [res, stack].  A read that  *)
(* takes a closure f is given as what it does before it calls f (its       *)
(* result is what f is called with) or, where it calls f first, as what    *)
(* it does with the result of f.  pop() of an empty stack panics (unwrap). *)
(***************************************************************************)
ExpectedError(expected, found) ==
  [k |-> "ExpectedError", v |-> [expected |-> expected, found |-> found]]
MissingFieldError(name) == [k |-> "MissingFieldError", v |-> name]
UnknownVariantError(name) == [k |-> "UnknownVariantError", v |-> name]
ParseError(e) == [k |-> "ParseError", v |-> e]

DRet(res, stack) == [res |-> res, stack |-> stack]
Top(stack) == stack[Len(stack)]
Rest(stack) == SubSeq(stack, 1, Len(stack) - 1)
PopPanic(stack) == DRet(Panic("called Option::unwrap() on a None value"), stack)

RECURSIVE Reverse(_)
Reverse(s) == IF s = <<>> THEN <<>> ELSE Append(Reverse(Tail(s)), Head(s))

Decoder_new(xml) == <<xml>>

\* format!("{}", xml): fmt::String for Xml runs the Encoder (encoding.rs:1385-1392)
Xml_fmt(x) == Xml_encode(x)

read_nil(stack) ==
  IF stack = <<>> THEN PopPanic(stack)
  ELSE IF Top(stack).k = "Null" THEN DRet(Ok(<<>>), Rest(stack))
  ELSE DRet(Err(ExpectedError("Null", Xml_fmt(Top(stack)))), Rest(stack))

\* a float read as its integer part (not what the code does)
read_i32_truncating(stack) ==
  IF stack = <<>> THEN PopPanic(stack)
  ELSE LET x == Top(stack)
       IN  CASE x.k = "I32" -> DRet(Ok(x.v), Rest(stack))
             [] x.k = "F64" -> DRet(Ok(x.v.ip), Rest(stack))
             [] x.k = "String" ->
                  LET n == parse_i32(x.v)
                  IN  IF IsSome(n) THEN DRet(Ok(n.v), Rest(stack))
                      ELSE DRet(Err(ExpectedError("Number", x.v)), Rest(stack))
             [] OTHER -> DRet(Err(ExpectedError("Number", Xml_fmt(x))), Rest(stack))

\* read_primitive! { read_i32, i32 }
read_i32(stack) ==
  IF stack = <<>> THEN PopPanic(stack)
  ELSE LET x == Top(stack)
       IN  CASE x.k = "I32" -> DRet(Ok(x.v), Rest(stack))
             [] x.k = "F64" -> DRet(Err(ExpectedError("Integer", fmt_f64(x.v))), Rest(stack))
             [] x.k = "String" ->
                  LET n == parse_i32(x.v)
                  IN  IF IsSome(n) THEN DRet(Ok(n.v), Rest(stack))
                      ELSE DRet(Err(ExpectedError("Number", x.v)), Rest(stack))
             [] OTHER -> DRet(Err(ExpectedError("Number", Xml_fmt(x))), Rest(stack))

UnsignedTypes == {"u8", "u16", "u32", "u64", "usize"}
\* the pattern of the i32 v in the n limbs of ty
LimbsOf(ty, n, v) ==
  CASE ty \in {"u8", "i8"} -> <<v % 256>>
    [] n = 1 -> <<v % 65536>>
    [] n = 2 -> <<v % 65536, (v \div 65536) % 65536>>
    [] OTHER -> <<v % 65536, (v \div 65536) % 65536,
                 IF v < 0 THEN 65535 ELSE 0, IF v < 0 THEN 65535 ELSE 0>>

\* v as T: the low bits kept, whatever v is (not what the code does)
num_cast_wrapping(ty, n, v) == Some(LimbsOf(ty, n, v))

\* num::cast::<i32, T>(v) for T the integer type ty of n limbs: None for a
\* v that T cannot hold
num_cast(ty, n, v) ==
  IF \/ ty \in UnsignedTypes /\ v < 0
     \/ ty = "u8" /\ v > 255
     \/ ty = "i8" /\ (v < -128 \/ v > 127)
     \/ ty = "u16" /\ v > 65535
     \/ ty = "i16" /\ (v < -32768 \/ v > 32767)
  THEN None
  ELSE Some(LimbsOf(ty, n, v))

\* s.parse::<T>() for a text of at most nine digits, which every integer
\* type of 32 bits or more holds if its sign allows
parse_int(ty, n, s) ==
  CASE Len(s) <= 9 ->
         IF IsNone(parse_i32(s)) \/ (ty \in UnsignedTypes /\ Head(s) = "-") THEN None
         ELSE num_cast(ty, n, parse_i32(s).v)

\* read_primitive! { read_usize, usize } .. { read_i64, i64 }, without read_i32
IntOf(ty, limbs) == [ty |-> ty, limbs |-> limbs]
read_int(stack, ty, n) ==
  IF stack = <<>> THEN PopPanic(stack)
  ELSE LET x == Top(stack)
       IN  CASE x.k = "I32" ->
                  IF IsSome(num_cast(ty, n, x.v))
                  THEN DRet(Ok(IntOf(ty, num_cast(ty, n, x.v).v)), Rest(stack))
                  ELSE DRet(Err(ExpectedError("Number", fmt_i32(x.v))), Rest(stack))
             [] x.k = "F64" -> DRet(Err(ExpectedError("Integer", fmt_f64(x.v))), Rest(stack))
             [] x.k = "String" ->
                  IF IsSome(parse_int(ty, n, x.v))
                  THEN DRet(Ok(IntOf(ty, parse_int(ty, n, x.v).v)), Rest(stack))
                  ELSE DRet(Err(ExpectedError("Number", x.v)), Rest(stack))
             [] OTHER -> DRet(Err(ExpectedError("Number", Xml_fmt(x))), Rest(stack))

read_f64(stack) ==
  IF stack = <<>> THEN PopPanic(stack)
  ELSE LET x == Top(stack)
       IN  CASE x.k = "I32" ->
                  DRet(Ok(F64(x.v, 0)), Rest(stack))
             [] x.k = "F64" -> DRet(Ok(x.v), Rest(stack))
             [] x.k = "String" ->
                  LET n == parse_f64(x.v)
                  IN  IF IsSome(n) THEN DRet(Ok(n.v), Rest(stack))
                      ELSE DRet(Err(ExpectedError("Number", x.v)), Rest(stack))
             [] x.k = "Null" -> DRet(Ok(F64_NAN), Rest(stack))
             [] OTHER -> DRet(Err(ExpectedError("Number", Xml_fmt(x))), Rest(stack))

read_bool(stack) ==
  IF stack = <<>> THEN PopPanic(stack)
  ELSE IF Top(stack).k = "Boolean" THEN DRet(Ok(Top(stack).v), Rest(stack))
  ELSE DRet(Err(ExpectedError("Boolean", Xml_fmt(Top(stack)))), Rest(stack))

read_str(stack) ==
  IF stack = <<>> THEN PopPanic(stack)
  ELSE IF Top(stack).k = "String" THEN DRet(Ok(Top(stack).v), Rest(stack))
  ELSE DRet(Err(ExpectedError("String", Xml_fmt(Top(stack)))), Rest(stack))

\* a unit that stands for a run of letters is more than one character
RunUnits == {"Bar", "Foo", "fields", "variant"} \cup DOMAIN TagKinds \cup Entities

\* let s = try!(self.read_str()), then exactly one character
SingleChar(s) ==
  IF s.res.r # "ok" THEN s
  ELSE IF Len(s.res.v) = 1 /\ s.res.v[1] \notin RunUnits THEN DRet(Ok(s.res.v[1]), s.stack)
  ELSE DRet(Err(ExpectedError("single character string", s.res.v)), s.stack)

read_char(stack) == SingleChar(read_str(stack))

\* f(self), with value the result of f
read_enum(value) == value

\* the fields pushed first to last, and no check of what "fields" holds
\* (not what the code does)
VariantOfObject_unchecked(variant, fields, st) ==
  IF IsNone(variant) THEN DRet(Err(MissingFieldError(<<"variant">>)), st)
  ELSE IF variant.v.k # "String"
  THEN DRet(Err(ExpectedError("String", Xml_fmt(variant.v))), st)
  ELSE IF IsNone(fields) \/ fields.v.k # "Array" THEN DRet(Ok(variant.v.v), st)
  ELSE DRet(Ok(variant.v.v), st \o fields.v.v)

\* the Object arm of read_enum_variant: the String under "variant", and the
\* elements of the Array under "fields" pushed in reverse
VariantOfObject(variant, fields, st) ==
  IF IsNone(variant) THEN DRet(Err(MissingFieldError(<<"variant">>)), st)
  ELSE IF variant.v.k # "String"
  THEN DRet(Err(ExpectedError("String", Xml_fmt(variant.v))), st)
  ELSE IF IsNone(fields) THEN DRet(Err(MissingFieldError(<<"fields">>)), st)
  ELSE IF fields.v.k # "Array"
  THEN DRet(Err(ExpectedError("Array", Xml_fmt(fields.v))), st)
  ELSE DRet(Ok(variant.v.v), st \o Reverse(fields.v.v))

\* let name = match self.pop() { .. }
VariantName(x, st) ==
  CASE x.k = "String" -> DRet(Ok(x.v), st)
    [] x.k = "Object" ->
         VariantOfObject(BTreeMap_get(x.v, <<"variant">>),
                         BTreeMap_get(BTreeMap_remove(x.v, <<"variant">>), <<"fields">>), st)
    [] OTHER -> DRet(Err(ExpectedError("String or Object", Xml_fmt(x))), st)

\* the first variant for a name that is none of the names (not what the
\* code does)
PositionOrFirst(names, name) ==
  IF \E i \in 1..Len(names) : names[i] = name
  THEN Some((CHOOSE i \in 1..Len(names) :
               names[i] = name /\ \A j \in 1..(i - 1) : names[j] # name) - 1)
  ELSE Some(0)

\* names.iter().position(|n| *n == name)
Position(names, name) ==
  IF \E i \in 1..Len(names) : names[i] = name
  THEN Some((CHOOSE i \in 1..Len(names) :
               names[i] = name /\ \A j \in 1..(i - 1) : names[j] # name) - 1)
  ELSE None

VariantIndex(named, names) ==
  IF named.res.r # "ok" THEN named
  ELSE IF IsNone(Position(names, named.res.v))
  THEN DRet(Err(UnknownVariantError(named.res.v)), named.stack)
  ELSE DRet(Ok(Position(names, named.res.v).v), named.stack)

\* read_enum_variant up to its call f(self, idx): Ok(idx) and the stack f is given
read_enum_variant(stack, names) ==
  IF stack = <<>> THEN PopPanic(stack)
  ELSE VariantIndex(VariantName(Top(stack), Rest(stack)), names)

\* f(self), with value the result of f
read_enum_variant_arg(idx, value) == value

\* let value = try!(f(self)); self.pop(); Ok(value), with value the result of f
read_struct(value) ==
  IF value.res.r # "ok" THEN value
  ELSE IF value.stack = <<>> THEN PopPanic(value.stack)
  ELSE DRet(value.res, Rest(value.stack))

\* the first member of the object taken, whatever its name (not what the
\* code does)
read_struct_field_positional(stack, name) ==
  IF stack = <<>> THEN PopPanic(stack)
  ELSE IF Top(stack).k # "Object"
  THEN DRet(Err(ExpectedError("Object", Xml_fmt(Top(stack)))), Rest(stack))
  ELSE IF Top(stack).v # <<>>
  THEN DRet(Ok([found |-> TRUE, obj |-> Tail(Top(stack).v)]),
            Append(Rest(stack), Head(Top(stack).v).val))
  ELSE DRet(Ok([found |-> FALSE, obj |-> Top(stack).v]), Append(Rest(stack), XmlNull))

\* read_struct_field up to its call f(self): the object popped, the field
\* removed from it and pushed (Null for a field the object has not)
read_struct_field(stack, name) ==
  IF stack = <<>> THEN PopPanic(stack)
  ELSE IF Top(stack).k # "Object"
  THEN DRet(Err(ExpectedError("Object", Xml_fmt(Top(stack)))), Rest(stack))
  ELSE IF BTreeMap_contains(Top(stack).v, name)
  THEN DRet(Ok([found |-> TRUE, obj |-> BTreeMap_remove(Top(stack).v, name)]),
            Append(Rest(stack), BTreeMap_get(Top(stack).v, name).v))
  ELSE DRet(Ok([found |-> FALSE, obj |-> Top(stack).v]), Append(Rest(stack), XmlNull))

\* the error of f(self) returned as it is, also for a field the object has
\* not (not what the code does)
read_struct_field_end_inner_error(field, name, value) ==
  IF value.res.r = "ok" THEN DRet(value.res, Append(value.stack, XmlObject(field.obj)))
  ELSE value

\* the object not pushed back after the field (not what the code does)
read_struct_field_end_no_push(field, name, value) ==
  IF value.res.r = "ok" THEN value
  ELSE IF value.res.r = "err" /\ ~field.found
  THEN DRet(Err(MissingFieldError(name)), value.stack)
  ELSE value

\* read_struct_field from the return of f(self), with value the result of f:
\* an error for a missing field is MissingFieldError; the object is pushed back
read_struct_field_end(field, name, value) ==
  IF value.res.r = "ok" THEN DRet(value.res, Append(value.stack, XmlObject(field.obj)))
  ELSE IF value.res.r = "err" /\ ~field.found
  THEN DRet(Err(MissingFieldError(name)), value.stack)
  ELSE value

\* every value taken as present (not what the code does)
read_option_present(stack) ==
  IF stack = <<>> THEN PopPanic(stack) ELSE DRet(Ok(TRUE), stack)

\* the value popped and not pushed back (not what the code does)
read_option_consuming(stack) ==
  IF stack = <<>> THEN PopPanic(stack)
  ELSE IF Top(stack).k = "Null" THEN DRet(Ok(FALSE), Rest(stack))
  ELSE DRet(Ok(TRUE), Rest(stack))

\* read_option up to its call f(self, b): Ok(b) and the stack f is given
read_option(stack) ==
  IF stack = <<>> THEN PopPanic(stack)
  ELSE IF Top(stack).k = "Null" THEN DRet(Ok(FALSE), Rest(stack))
  ELSE DRet(Ok(TRUE), stack)

\* a value that is no Array left on the stack (not what the code does)
read_seq_restoring(stack) ==
  IF stack = <<>> THEN PopPanic(stack)
  ELSE IF Top(stack).k # "Array"
  THEN DRet(Err(ExpectedError("Array", Xml_fmt(Top(stack)))), stack)
  ELSE DRet(Ok(Len(Top(stack).v)), Rest(stack) \o Reverse(Top(stack).v))

\* read_seq up to its call f(self, len): Ok(len) and the stack f is given
read_seq(stack) ==
  IF stack = <<>> THEN PopPanic(stack)
  ELSE IF Top(stack).k # "Array"
  THEN DRet(Err(ExpectedError("Array", Xml_fmt(Top(stack)))), Rest(stack))
  ELSE DRet(Ok(Len(Top(stack).v)), Rest(stack) \o Reverse(Top(stack).v))

\* f(self), with value the result of f
read_seq_elt(idx, value) == value

\* the closure read_tuple gives to read_seq, up to its call f(d): the
\* ExpectedError names the two lengths
TupleLen(seq, tuple_len) ==
  IF seq.res.r # "ok" \/ seq.res.v = tuple_len THEN seq
  ELSE DRet(Err(ExpectedError(<<"Tuple">> \o fmt_i32(tuple_len), <<"Tuple">> \o fmt_i32(seq.res.v))),
            seq.stack)

\* read_tuple up to the call f(d)
read_tuple(stack, tuple_len) == TupleLen(read_seq(stack), tuple_len)

RECURSIVE PushEntries(_, _)
\* for (key, value) in obj.into_iter() { push(value); push(Xml::String(key)) }
PushEntries(stack, entries) ==
  IF entries = <<>> THEN stack
  ELSE PushEntries(stack \o <<Head(entries).val, XmlString(Head(entries).key)>>, Tail(entries))

\* read_map up to its call f(self, len): Ok(len) and the stack f is given
read_map(stack) ==
  IF stack = <<>> THEN PopPanic(stack)
  ELSE IF Top(stack).k # "Object"
  THEN DRet(Err(ExpectedError("Object", Xml_fmt(Top(stack)))), Rest(stack))
  ELSE DRet(Ok(Len(Top(stack).v)), PushEntries(Rest(stack), Top(stack).v))

\* f(self), with value the result of f
read_map_elt_key(idx, value) == value
read_map_elt_val(idx, value) == value

(***************************************************************************)
(* Decodable::decode for the requested type ty: the library and derived    *)
(* impls, which drive the Decoder through the reads above.  A closure      *)
(* handed to a read is the operator applied to what that read returns.     *)
(* The value decoded is a native value of type ty.                         *)
(***************************************************************************)
RECURSIVE Decodable_decode(_, _)
RECURSIVE DecodeSeqElts(_, _, _, _, _), SeqElt(_, _, _, _, _)
RECURSIVE DecodeFields(_, _, _), Field(_, _, _), FieldEnd(_, _, _)
RECURSIVE DecodeMapElts(_, _, _, _, _), MapKey(_, _, _, _, _), MapVal(_, _, _, _, _, _)
RECURSIVE DecodeVariantArgs(_, _, _, _, _), VariantArg(_, _, _, _, _)

\* for i in 0..len { v.push(try!(d.read_seq_elt(i, Decodable::decode))) }; Ok(v)
DecodeSeqElts(elem, stack, i, len, acc) ==
  IF i >= len THEN DRet(Ok(NVec(elem, acc)), stack)
  ELSE SeqElt(elem, read_seq_elt(i, Decodable_decode(elem, stack)), i, len, acc)

SeqElt(elem, e, i, len, acc) ==
  IF e.res.r # "ok" THEN e
  ELSE DecodeSeqElts(elem, e.stack, i + 1, len, Append(acc, e.res.v))

\* d.read_seq(|d, len| ..), with seq what read_seq hands to the closure
DecodeSeq(elem, seq) ==
  IF seq.res.r # "ok" THEN seq ELSE DecodeSeqElts(elem, seq.stack, 0, seq.res.v, <<>>)

\* Name { f1: try!(d.read_struct_field("f1", 0, Decodable::decode)), ... }
DecodeFields(fields, stack, acc) ==
  IF Len(acc) >= Len(fields) THEN DRet(Ok(NStruct(acc)), stack)
  ELSE Field(fields, read_struct_field(stack, fields[Len(acc) + 1].name), acc)

Field(fields, pre, acc) ==
  IF pre.res.r # "ok" THEN pre
  ELSE FieldEnd(fields,
                read_struct_field_end(pre.res.v, fields[Len(acc) + 1].name,
                                      Decodable_decode(fields[Len(acc) + 1].ty, pre.stack)),
                acc)

FieldEnd(fields, e, acc) ==
  IF e.res.r # "ok" THEN e
  ELSE DecodeFields(fields, e.stack,
                    Append(acc, [name |-> fields[Len(acc) + 1].name, val |-> e.res.v]))

\* d.read_struct("Name", n, |d| ..)
DecodeStruct(fields, stack) == read_struct(DecodeFields(fields, stack, <<>>))

\* for i in 0..len { map.insert(try!(read_map_elt_key(..)), try!(read_map_elt_val(..))) }
DecodeMapElts(elem, stack, i, len, acc) ==
  IF i >= len THEN DRet(Ok(NMap(elem, acc)), stack)
  ELSE MapKey(elem, read_map_elt_key(i, read_str(stack)), i, len, acc)

MapKey(elem, key, i, len, acc) ==
  IF key.res.r # "ok" THEN key
  ELSE MapVal(elem, key.res.v, read_map_elt_val(i, Decodable_decode(elem, key.stack)),
              i, len, acc)

MapVal(elem, k, value, i, len, acc) ==
  IF value.res.r # "ok" THEN value
  ELSE DecodeMapElts(elem, value.stack, i + 1, len, BTreeMap_insert(acc, k, value.res.v))

\* d.read_map(|d, len| ..), with m what read_map hands to the closure
DecodeMap(elem, m) ==
  IF m.res.r # "ok" THEN m ELSE DecodeMapElts(elem, m.stack, 0, m.res.v, BTreeMap_new)

\* Variant(try!(d.read_enum_variant_arg(0, Decodable::decode)), ...) for the
\* variant variants[idx]
DecodeVariantArgs(variants, idx, stack, i, acc) ==
  IF i >= Len(variants[idx].args) THEN DRet(Ok(NEnum(variants, idx, acc)), stack)
  ELSE VariantArg(variants, idx,
                  read_enum_variant_arg(i, Decodable_decode(variants[idx].args[i + 1], stack)),
                  i, acc)

VariantArg(variants, idx, e, i, acc) ==
  IF e.res.r # "ok" THEN e
  ELSE DecodeVariantArgs(variants, idx, e.stack, i + 1, Append(acc, e.res.v))

\* d.read_enum_variant(names, |d, idx| ..), with v what read_enum_variant
\* hands to the closure
DecodeEnum(variants, v) ==
  IF v.res.r # "ok" THEN v ELSE DecodeVariantArgs(variants, v.res.v + 1, v.stack, 0, <<>>)

\* Some(try!(Decodable::decode(d)))
WrapSome(inner, r) ==
  IF r.res.r = "ok" THEN DRet(Ok(NOption(inner, Some(r.res.v))), r.stack) ELSE r

\* d.read_option(|d, b| if b { Ok(Some(..)) } else { Ok(None) }), with o what
\* read_option hands to the closure
DecodeOption(inner, o) ==
  IF o.res.r # "ok" THEN o
  ELSE IF o.res.v THEN WrapSome(inner, Decodable_decode(inner, o.stack))
  ELSE DRet(Ok(NOption(inner, None)), o.stack)

\* the value read, as a native value of the scalar type k
Wrap(r, k) == IF r.res.r = "ok" THEN DRet(Ok([k |-> k, v |-> r.res.v]), r.stack) ELSE r

Decodable_decode(ty, stack) ==
  CASE ty.k = "unit" -> Wrap(read_nil(stack), "unit")
    [] ty.k = "bool" -> Wrap(read_bool(stack), "bool")
    [] ty.k = "i32" -> Wrap(read_i32(stack), "i32")
    [] ty.k = "int" -> Wrap(read_int(stack, ty.v.ty, ty.v.n), "int")
    [] ty.k = "f64" -> Wrap(read_f64(stack), "f64")
    [] ty.k = "str" -> Wrap(read_str(stack), "str")
    [] ty.k = "char" -> Wrap(read_char(stack), "char")
    [] ty.k = "vec" -> DecodeSeq(ty.v, read_seq(stack))
    [] ty.k = "struct" -> DecodeStruct(ty.v, stack)
    [] ty.k = "map" -> DecodeMap(ty.v, read_map(stack))
    [] ty.k = "enum" ->
         read_enum(DecodeEnum(ty.v, read_enum_variant(stack, [i \in 1..Len(ty.v) |-> ty.v[i].name])))
    [] ty.k = "option" -> DecodeOption(ty.v, read_option(stack))

DecodeXml(xml, ty) ==
  IF xml.r = "err" THEN Err(ParseError(xml.v))
  ELSE IF xml.r # "ok" THEN xml
  ELSE Decodable_decode(ty, Decoder_new(xml.v)).res

\* pub fn decode<T: Decodable>(s: &str) -> DecodeResult<T>
decode(s, ty) == DecodeXml(from_str(s), ty)

(***************************************************************************)
(* Xml::search (encoding.rs:451-472): the value under the key in the       *)
(* Object itself, else the first one found in its members, searched in     *)
(* the order of the map; None for a value that is not an Object.           *)
(***************************************************************************)
\* only the members of the Object itself are looked at (not what the code does)
Xml_search_shallow(x, k) ==
  IF x.k # "Object" THEN None ELSE BTreeMap_get(x.v, k)

RECURSIVE Xml_search(_, _), SearchMembers(_, _), FirstFound(_, _, _)

\* for (_, v) in map.iter() { match v.search(key) { x if x.is_some() => return x, _ => () } } None
SearchMembers(entries, k) ==
  IF entries = <<>> THEN None
  ELSE FirstFound(Xml_search(Head(entries).val, k), Tail(entries), k)

FirstFound(x, rest, k) == IF IsSome(x) THEN x ELSE SearchMembers(rest, k)

\* match map.get(key) { Some(xml_value) => Some(xml_value), None => .. }
SearchIn(found, entries, k) == IF IsSome(found) THEN found ELSE SearchMembers(entries, k)

Xml_search(x, k) ==
  IF x.k # "Object" THEN None ELSE SearchIn(BTreeMap_get(x.v, k), x.v, k)

(***************************************************************************)
(* struct Request (protocol.rs:14-45): the method name and the body built  *)
(* so far.  The continuation lines of the format string of Request::new    *)
(* leave no white space between the tags.                                  *)
(***************************************************************************)
Request_new(method) ==
  [method |-> method,
   body |-> <<XmlDecl>> \o OpenTag("methodCall") \o OpenTag("methodName") \o method
              \o CloseTag("methodName") \o OpenTag("params")]

\* the argument inside <value> (not what the code does)
Request_argument_value(self, object) ==
  [self EXCEPT !.body = self.body \o OpenTag("param") \o OpenTag("value") \o encode(object)
                          \o CloseTag("value") \o CloseTag("param")]

Request_argument(self, object) ==
  [self EXCEPT !.body = self.body \o OpenTag("param") \o encode(object) \o CloseTag("param")]

Request_finalize(self) ==
  [self EXCEPT !.body = self.body \o CloseTag("params") \o CloseTag("methodCall")]

(***************************************************************************)
(* struct Response (protocol.rs:46-64).  find_str is the byte search of    *)
(* str; unwrap of a failed search, a slice with begin > end and unwrap of  *)
(* a failed decode all panic.                                              *)
(***************************************************************************)
find_str(text, pat) ==
  LET hits == {i \in 0..(Len(text) - Len(pat)) : SubSeq(text, i + 1, i + Len(pat)) = pat}
  IN  IF hits = {} THEN None ELSE Some(CHOOSE i \in hits : \A j \in hits : i <= j)

Response_new(body) == body

\* super::decode(val).unwrap(), then Some(object)
Unwrap(object) ==
  IF object.r = "err" THEN Panic("called Result::unwrap() on an Err value")
  ELSE IF object.r # "ok" THEN object
  ELSE Ok(Some(object.v))

\* resp.slice(idx0, idx1) with the results f0, f1 of the two searches
Slice(body, f0, len0, f1, ty) ==
  IF IsNone(f0) \/ IsNone(f1) THEN Panic("called Option::unwrap() on a None value")
  ELSE IF f0.v + len0 > f1.v THEN Panic("slice index out of order")
  ELSE Unwrap(decode(SubSeq(body, f0.v + len0 + 1, f1.v), ty))

ResultBetween(body, val0, val1, ty) ==
  Slice(body, find_str(body, val0), Len(val0), find_str(body, val1), ty)

Response_result(body, ty) ==
  ResultBetween(body,
    OpenTag("params") \o <<"\n">> \o OpenTag("param") \o <<"\n">> \o OpenTag("value"),
    CloseTag("value") \o <<"\n">> \o CloseTag("param") \o <<"\n">> \o CloseTag("params"),
    ty)

(***************************************************************************)
(* The values, wire texts and response bodies the operations are run on.   *)
(***************************************************************************)
RECURSIVE SeqsUpTo(_, _)
\* the sequences over S of length at most n
SeqsUpTo(S, n) ==
  IF n = 0 THEN {<<>>}
  ELSE LET shorter == SeqsUpTo(S, n - 1)
       IN  shorter \cup {Append(s, x) : s \in shorter, x \in S}

StrUnits == {"a", "b", " ", "&", "<", ">"}
Strs == SeqsUpTo(StrUnits, MaxStrLen)
I32s == {0, 1, 2, -1, 42, -42, 18283, I32_MAX, I32_MIN}
F64s == {F64(0, 0), F64(3, 0), F64(-3, 0), F64(-1, 5000000), F64(1, 10000),
         F64(3, 1415926), F64(0, 1000000)}
FieldNames == {<<"a">>, <<"b">>, <<"c">>}

IsInjective(s) == \A i, j \in 1..Len(s) : s[i] = s[j] => i = j
\* the field-name lists of a record: distinct names
NameLists == {s \in SeqsUpTo(FieldNames, MaxSeqLen) : IsInjective(s)}
\* field names as a hand-written impl Encodable may pass them to
\* emit_struct_field: with "&", "<" or ">" in them, or plain
OddNameLists ==
  {<<(<<"a", "&", "b">>)>>, <<(<<"a", "<">>)>>, <<(<<"a">>), (<<"b", ">">>)>>, <<(<<"b">>), (<<"a">>)>>}
\* the value whose impl writes the i-th of the names with the i32 i
ImplOf(names) == NImpl([i \in 1..Len(names) |-> [name |-> names[i], val |-> NI32(i)]])
\* a record whose i-th declared field holds the i32 i
RecordOf(names) == NStruct([i \in 1..Len(names) |-> [name |-> names[i], val |-> NI32(i)]])

RECURSIVE MapOf(_, _)
\* the BTreeMap<String, i32> built by inserting key names[i] -> i in that order
MapOf(names, i) ==
  IF i = 0 THEN BTreeMap_new ELSE BTreeMap_insert(MapOf(names, i - 1), names[i], NI32(i))

Animal == <<[name |-> <<"Foo">>, args |-> <<>>], [name |-> <<"Bar">>, args |-> <<TI32>>],
            [name |-> <<"a">>, args |-> <<TI32, TI32>>]>>
\* the values of enum Animal { Foo, Bar(i32), a(i32, i32) }
Animals == {NEnum(Animal, 1, <<>>)} \cup {NEnum(Animal, 2, <<NI32(n)>>) : n \in {1, 2}}
             \cup {NEnum(Animal, 3, <<NI32(1), NI32(n)>>) : n \in {1, 2}}

\* integers of the other widths: small ones, the ends of each range, and
\* values of 64 bits outside the range of i32.  usize and isize are 64 bits
\* wide or 32.
Bytes == {0, 1, 127, 128, 255}
Limbs == {0, 1, 32767, 32768, 65535}
HighLimbs == {0, 1, 65535}
Ints ==
  {NInt(ty, <<b>>) : ty \in {"u8", "i8"}, b \in Bytes}
    \cup {NInt(ty, <<l>>) : ty \in {"u16", "i16"}, l \in Limbs}
    \cup {NInt(ty, <<l, h>>) : ty \in {"u32", "usize", "isize"}, l \in Limbs, h \in Limbs}
    \cup {NInt(ty, <<l, h, x, y>>) :
            ty \in {"u64", "i64", "usize", "isize"}, l \in HighLimbs, h \in Limbs,
            x \in HighLimbs, y \in HighLimbs}

XmlVals ==
  <<XmlDateTime, XmlBase64(<<"a">>), XmlNull, XmlI32(1), XmlString(<<"a">>),
    XmlArray(<<XmlI32(1), XmlString(<<"a">>)>>), XmlArray(<<XmlDateTime>>),
    XmlObject(<<[key |-> <<"a">>, val |-> XmlI32(1)]>>),
    XmlObject(<<[key |-> <<"a">>, val |-> XmlI32(1)], [key |-> <<"b">>, val |-> XmlBoolean(TRUE)]>>)>>

RECURSIVE Flatten(_)
\* the texts of a sequence, one after the other
Flatten(texts) == IF texts = <<>> THEN <<>> ELSE Head(texts) \o Flatten(Tail(texts))

\* the pieces of a struct text: its tags, its names and its values
IntText(n) == OpenTag("int") \o fmt_i32(n) \o CloseTag("int")
MemberPieces(name, value) ==
  <<OpenTag("member"), OpenTag("name"), name, CloseTag("name"),
    OpenTag("value"), value, CloseTag("value"), CloseTag("member")>>
StructPieces(members) == <<OpenTag("struct")>> \o members \o <<CloseTag("struct")>>
OneMember == StructPieces(MemberPieces(<<"a">>, IntText(1)))
TwoMembers ==
  StructPieces(MemberPieces(<<"b">>, IntText(1))
                 \o MemberPieces(<<"a">>, OpenTag("struct") \o CloseTag("struct")))
\* the pieces without the i-th, and with the text x put in after the i-th
Without(pieces, i) == SubSeq(pieces, 1, i - 1) \o SubSeq(pieces, i + 1, Len(pieces))
WithAfter(pieces, i, x) == SubSeq(pieces, 1, i) \o <<x>> \o SubSeq(pieces, i + 1, Len(pieces))
\* struct texts as a peer may send them: complete, with one piece missing,
\* with an unknown element or white space between two pieces, with a member
\* name used twice
Extras == {OpenTag("foo") \o CloseTag("foo"), <<" ">>, <<"\n">>}
Deviations(pieces) ==
  {Flatten(pieces)}
    \cup {Flatten(Without(pieces, i)) : i \in 1..Len(pieces)}
    \cup {Flatten(WithAfter(pieces, i, x)) : i \in 1..(Len(pieces) - 1), x \in Extras}
NameTwice(m, n) ==
  Flatten(StructPieces(MemberPieces(<<"a">>, IntText(m)) \o MemberPieces(<<"b">>, IntText(3))
                         \o MemberPieces(<<"a">>, IntText(n))))
SameNameTwice == {NameTwice(m, n) : m, n \in {1, 2}}
StructTexts ==
  Deviations(OneMember) \cup Deviations(TwoMembers) \cup SameNameTwice
    \cup {OpenTag("struct") \o CloseTag("struct")}

\* scalar texts whose character data is no boolean and no 32-bit integer,
\* alone, as the element of an array and directly inside <data>
BadScalars ==
  {OpenTag("boolean") \o s \o CloseTag("boolean") : s \in {<<"2">>, <<"a">>, <<"1", "0">>}}
    \cup {OpenTag("int") \o s \o CloseTag("int") :
             s \in {<<"a">>, <<" ", "1">>, <<"1", "a">>, <<"-">>,
                    <<"2", "1", "4", "7", "4", "8", "3", "6", "4", "8">>}}
GoodScalars ==
  {OpenTag("boolean") \o <<"1">> \o CloseTag("boolean"),
   OpenTag("int") \o <<"-", "7">> \o CloseTag("int")}
InArray(elts) == OpenTag("array") \o OpenTag("data") \o elts \o CloseTag("data") \o CloseTag("array")
InValue(t) == OpenTag("value") \o t \o CloseTag("value")
ScalarTexts ==
  LET scalars == BadScalars \cup GoodScalars
  IN  scalars \cup {InArray(InValue(t)) : t \in scalars}
        \cup {InArray(InValue(IntText(1)) \o InValue(t)) : t \in scalars}
        \cup {InArray(t) : t \in scalars}
        \cup {Flatten(StructPieces(MemberPieces(<<"a">>, t))) : t \in scalars}

\* wire texts handed to the parser as they come from a peer
MemberNoValue ==
  OpenTag("struct") \o OpenTag("member") \o OpenTag("name") \o <<"a">> \o CloseTag("name")
    \o CloseTag("member") \o CloseTag("struct")
WireTexts ==
  {MemberNoValue,
   OpenTag("dateTime.iso8601") \o <<"1">> \o CloseTag("dateTime.iso8601"),
   OpenTag("base64") \o <<"a">> \o CloseTag("base64"),
   OpenTag("base64") \o CloseTag("base64")}
    \cup {OpenTag(t) \o fmt_i32(n) \o CloseTag(t) : t \in {"i4", "int"}, n \in {0, 5, -42, I32_MAX}}
    \cup {encode(RecordOf(names)) : names \in NameLists}
    \cup {\* an array cut short, an array with an unknown element inside
          OpenTag("array") \o OpenTag("data"),
          OpenTag("array") \o OpenTag("data") \o OpenTag("value") \o OpenTag("int") \o <<"1">>
            \o CloseTag("int") \o CloseTag("value"),
          OpenTag("array") \o OpenTag("data") \o OpenTag("foo") \o CloseTag("foo")
            \o CloseTag("data") \o CloseTag("array"),
          \* an unknown element and bare character data where a value is due
          InArray(InValue(OpenTag("foo") \o CloseTag("foo"))),
          InArray(InValue(<<"a">>)),
          Flatten(StructPieces(MemberPieces(<<"a">>, OpenTag("i8") \o <<"1">> \o CloseTag("i8")))),
          \* a value cut short
          OpenTag("array") \o OpenTag("data") \o OpenTag("value"),
          \* an array directly inside an array, without <value> around it
          OpenTag("array") \o OpenTag("data") \o OpenTag("array") \o CloseTag("array")
            \o CloseTag("data") \o CloseTag("array"),
          OpenTag("array") \o OpenTag("data") \o OpenTag("array") \o CloseTag("array")
            \o OpenTag("foo") \o CloseTag("foo") \o CloseTag("data") \o CloseTag("array"),
          \* a value after the XML declaration, a value before white space
          <<XmlDecl>> \o OpenTag("int") \o <<"1">> \o CloseTag("int"),
          OpenTag("int") \o <<"1">> \o CloseTag("int") \o <<"\n">>,
          \* text the tokenizer fails on before, inside and after the root value
          <<"a">> \o OpenTag("int") \o <<"1">> \o CloseTag("int"),
          OpenTag("int") \o <<"1">>,
          OpenTag("int") \o <<"1">> \o CloseTag("int") \o <<"a">>,
          OpenTag("int") \o <<"1">> \o CloseTag("int") \o CloseTag("int")}
    \cup {OpenTag("string") \o name \o CloseTag("string") :
            name \in {<<"Bogus">>, <<"Foo">>, <<"Bar">>, <<"a">>, <<"Foo", " ">>}}
WantTypes ==
  <<TI32, TStr, TStruct(<<[name |-> <<"a">>, ty |-> TI32]>>),
    TStruct(<<[name |-> <<"a">>, ty |-> TI32], [name |-> <<"b">>, ty |-> TI32]>>),
    TStruct(<<[name |-> <<"b">>, ty |-> TI32], [name |-> <<"a">>, ty |-> TI32]>>),
    TStruct(<<[name |-> <<"a">>, ty |-> TOption(TI32)], [name |-> <<"b">>, ty |-> TI32]>>),
    TStruct(<<[name |-> <<"b">>, ty |-> TI32], [name |-> <<"a">>, ty |-> TOption(TI32)]>>),
    TStruct(<<[name |-> <<"c">>, ty |-> TOption(TI32)], [name |-> <<"a">>, ty |-> TOption(TI32)]>>),
    TEnum(Animal)>>

\* the values searched: an Object is listed in the order of its keys
Obj1(k, v) == XmlObject(<<[key |-> k, val |-> v]>>)
Obj2(k1, v1, k2, v2) == XmlObject(<<[key |-> k1, val |-> v1], [key |-> k2, val |-> v2]>>)
SearchVals ==
  <<XmlI32(1), XmlString(<<"a">>), XmlObject(<<>>),
    XmlArray(<<Obj1(<<"a">>, XmlI32(7))>>),
    Obj1(<<"a">>, XmlI32(1)),
    Obj2(<<"a">>, XmlI32(1), <<"b">>, Obj1(<<"a">>, XmlI32(2))),
    Obj2(<<"a">>, Obj1(<<"c">>, XmlI32(3)), <<"b">>, Obj1(<<"c">>, XmlI32(4))),
    Obj2(<<"a">>, XmlString(<<"x">>), <<"b">>, Obj1(<<"c">>, XmlI32(4))),
    Obj1(<<"a">>, Obj1(<<"b">>, Obj1(<<"c">>, XmlI32(5)))),
    Obj1(<<"a">>, XmlArray(<<Obj1(<<"c">>, XmlI32(6))>>)),
    Obj2(<<"a">>, Obj1(<<"b">>, XmlNull), <<"c">>, Obj1(<<"b">>, Obj1(<<"a">>, XmlBoolean(TRUE))))>>

\* Decoder stacks on which a single read is called: what lies below the top,
\* and the top
Belows == <<(<<>>), (<<XmlI32(9)>>), (<<XmlString(<<"z">>), Obj1(<<"a">>, XmlI32(8))>>)>>
EnumObj(variant, fields) == Obj2(<<"fields">>, fields, <<"variant">>, variant)
TopVals ==
  <<XmlNull, XmlI32(5), XmlI32(-3), XmlF64(F64(1, 5000000)), XmlF64(F64(2, 0)),
    XmlBoolean(TRUE),
    XmlString(<<"1", "2">>), XmlString(<<"-", "7">>), XmlString(<<"a">>),
    XmlString(<<"1", ".", "5">>), XmlString(<<"Foo">>), XmlString(<<"Bogus">>),
    XmlArray(<<XmlI32(1)>>), XmlDateTime,
    XmlObject(<<>>), Obj1(<<"a">>, XmlI32(1)), Obj1(<<"b">>, XmlNull),
    Obj2(<<"a">>, XmlI32(1), <<"b">>, XmlI32(2)),
    Obj2(<<"a">>, XmlString(<<"x">>), <<"c">>, Obj1(<<"a">>, XmlI32(4))),
    XmlObject(<<[key |-> <<"a">>, val |-> XmlI32(1)], [key |-> <<"b">>, val |-> XmlI32(2)],
                [key |-> <<"c">>, val |-> XmlI32(3)]>>),
    EnumObj(XmlString(<<"a">>), XmlArray(<<XmlI32(1), XmlI32(2)>>)),
    EnumObj(XmlString(<<"Bar">>), XmlArray(<<XmlI32(7)>>)),
    EnumObj(XmlString(<<"Foo">>), XmlArray(<<>>)),
    EnumObj(XmlString(<<"Bogus">>), XmlArray(<<>>)),
    EnumObj(XmlI32(1), XmlArray(<<>>)),
    EnumObj(XmlString(<<"Foo">>), XmlI32(1)),
    EnumObj(XmlString(<<"Foo">>), Obj1(<<"a">>, XmlI32(1))),
    Obj1(<<"variant">>, XmlString(<<"Foo">>)),
    Obj1(<<"fields">>, XmlArray(<<>>)),
    \* fewer and more fields than the variant has, alone and in an Array
    EnumObj(XmlString(<<"Bar">>), XmlArray(<<>>)),
    EnumObj(XmlString(<<"Foo">>), XmlArray(<<XmlI32(7)>>)),
    XmlArray(<<EnumObj(XmlString(<<"Foo">>), XmlArray(<<XmlI32(7)>>)), XmlString(<<"Foo">>)>>),
    XmlArray(<<XmlString(<<"Bar">>)>>),
    XmlArray(<<XmlI32(1), XmlI32(2)>>),
    Obj2(<<"a">>, EnumObj(XmlString(<<"Foo">>), XmlArray(<<XmlI32(7)>>)), <<"b">>, XmlI32(2))>>
\* the types a field is read as
FieldTypes ==
  <<TI32, TStr, TF64, TUnit, TBool, TOption(TI32), TStruct(<<[name |-> <<"a">>, ty |-> TI32]>>)>>

\* the integer types other than i32, with the number of their limbs, and
\* the values read as one of them
IntTypes ==
  <<TInt("u8", 1), TInt("i8", 1), TInt("u16", 1), TInt("i16", 1), TInt("u32", 2),
    TInt("usize", 2), TInt("isize", 2), TInt("u64", 4), TInt("i64", 4), TInt("usize", 4),
    TInt("isize", 4)>>
IntVals ==
  <<XmlI32(0), XmlI32(5), XmlI32(-1), XmlI32(127), XmlI32(128), XmlI32(-128), XmlI32(-129),
    XmlI32(255), XmlI32(256), XmlI32(32767), XmlI32(32768), XmlI32(-32768), XmlI32(-32769),
    XmlI32(65535), XmlI32(65536), XmlI32(I32_MAX), XmlI32(I32_MIN),
    XmlF64(F64(2, 0)), XmlString(<<"1", "2">>), XmlString(<<"3", "0", "0">>),
    XmlString(<<"-", "7">>), XmlString(<<"a">>), XmlNull>>

\* the types a value is decoded as
ShapeTypes ==
  <<TI32, TStr, TOption(TI32), TVec(TI32), TVec(TEnum(Animal)), TMap(TI32), TEnum(Animal),
    TStruct(<<[name |-> <<"a">>, ty |-> TI32]>>),
    TStruct(<<[name |-> <<"a">>, ty |-> TEnum(Animal)], [name |-> <<"b">>, ty |-> TI32]>>)>>

\* method names and arguments of requests
Methods == {<<"sum">>, <<"a", ".", "b">>}
Arguments == <<NI32(1), NStr(<<"a", "<">>), NVec(TI32, <<NI32(1), NI32(2)>>), NBool(TRUE)>>

\* a methodResponse around the payload text, in three layouts
ResponseLines(payload) ==
  <<XmlDecl, "\n">> \o OpenTag("methodResponse") \o <<"\n">> \o OpenTag("params") \o <<"\n">>
    \o OpenTag("param") \o <<"\n">> \o OpenTag("value") \o payload \o CloseTag("value")
    \o <<"\n">> \o CloseTag("param") \o <<"\n">> \o CloseTag("params") \o <<"\n">>
    \o CloseTag("methodResponse") \o <<"\n">>
ResponseCompact(payload) ==
  <<XmlDecl>> \o OpenTag("methodResponse") \o OpenTag("params") \o OpenTag("param")
    \o OpenTag("value") \o payload \o CloseTag("value") \o CloseTag("param")
    \o CloseTag("params") \o CloseTag("methodResponse")
ResponseIndented(payload) ==
  <<XmlDecl, "\n">> \o OpenTag("methodResponse") \o <<"\n", " ">> \o OpenTag("params")
    \o <<"\n", " ", " ">> \o OpenTag("param") \o <<"\n", " ", " ", " ">> \o OpenTag("value")
    \o payload \o CloseTag("value") \o <<"\n", " ", " ">> \o CloseTag("param")
    \o <<"\n", " ">> \o CloseTag("params") \o <<"\n">> \o CloseTag("methodResponse")

(***************************************************************************)
(* The state machine: a value is encoded, or a wire text or a response     *)
(* body arrives; the text is parsed; the tree is decoded.                  *)
(***************************************************************************)
NoVal == [k |-> "none", v |-> <<>>]
NoRequest == [method |-> <<>>, body |-> <<>>]
Nothing == [r |-> "none", v |-> "none"]
NoCall == [op |-> "none"]

Init ==
  /\ pc = "idle"
  /\ val = NoVal
  /\ want = TXml
  /\ out = <<>>
  /\ encRes = "none"
  /\ via = "none"
  /\ tree = Nothing
  /\ result = Nothing
  /\ request = NoRequest
  /\ given = NoRequest
  /\ searched = <<>>
  /\ before = <<>>
  /\ call = NoCall
  /\ after = DRet(Nothing, <<>>)

\* let s = xmlrpc::encode(&object)
Encode(object) ==
  /\ pc = "idle"
  /\ val' = object
  /\ want' = TypeOf(object)
  /\ out' = encode(object)
  /\ encRes' = "Ok"
  /\ via' = "encoding.rs"
  /\ pc' = "text"
  /\ UNCHANGED <<before, call, after, request, given, searched, tree, result>>

\* the same call against the encoder of lib.rs, for a String or a char
EncodeLib ==
  /\ pc = "idle"
  /\ \/ \E s \in Strs : val' = NStr(s) /\ out' = lib_emit_str(s)
     \/ \E c \in StrUnits : val' = NChar(c) /\ out' = lib_emit_char(c)
  /\ want' = TypeOf(val')
  /\ encRes' = "Ok"
  /\ via' = "lib.rs"
  /\ pc' = "text"
  /\ UNCHANGED <<before, call, after, request, given, searched, tree, result>>

EncodeScalar ==
  \/ \E s \in Strs : Encode(NStr(s))
  \/ \E c \in StrUnits : Encode(NChar(c))
  \/ Encode(NUnit)
  \/ \E b \in BOOLEAN : Encode(NBool(b))
  \/ \E n \in I32s : Encode(NI32(n))
  \/ \E x \in F64s : Encode(NF64(x))

EncodeSeq ==
  \/ \E s \in SeqsUpTo({NI32(n) : n \in {1, 2, 3}}, MaxSeqLen) : Encode(NVec(TI32, s))
  \/ \E s \in SeqsUpTo({NStr(t) : t \in {<<>>, <<"a">>, <<"<">>}}, MaxSeqLen) : Encode(NVec(TStr, s))
  \/ \E s \in SeqsUpTo({NVec(TI32, t) : t \in {<<>>, <<NI32(1)>>}}, MaxSeqLen) :
       Encode(NVec(TVec(TI32), s))

EncodeRecord == \E names \in NameLists : Encode(RecordOf(names))
EncodeImpl == \E names \in OddNameLists : Encode(ImplOf(names))

EncodeMap == \E names \in NameLists : Encode(NMap(TI32, MapOf(names, Len(names))))

EncodeEnum == \E e \in Animals : Encode(e)

EncodeOption ==
  \/ Encode(NOption(TI32, None))
  \/ \E n \in {1, 2} : Encode(NOption(TI32, Some(NI32(n))))

EncodeXml == \E i \in 1..Len(XmlVals) : Encode(NXml(XmlVals[i]))

\* xmlrpc::encode(&n) for n of an integer type other than i32; the text is
\* not decoded afterwards
EncodeInt ==
  /\ pc = "idle"
  /\ \E n \in Ints : val' = n /\ out' = encode(n)
  /\ want' = TXml
  /\ encRes' = "Ok"
  /\ via' = "encoding.rs"
  /\ pc' = "text"
  /\ UNCHANGED <<before, call, after, request, given, searched, tree, result>>

\* a wire text arrives and is to be read as the type ty
Receive ==
  /\ pc = "idle"
  /\ \/ \E t \in WireTexts, i \in 1..Len(WantTypes) :
          /\ out' = t
          /\ want' = WantTypes[i]
     \/ \E t \in StructTexts \cup ScalarTexts :
          /\ out' = t
          /\ want' = TXml
  /\ pc' = "text"
  /\ UNCHANGED <<before, call, after, request, given, searched, val, encRes, via, tree, result>>

\* Xml::from_str(out)
Parse ==
  /\ pc = "text"
  /\ tree' = from_str(out)
  /\ pc' = "parsed"
  /\ UNCHANGED <<before, call, after, request, given, searched, val, want, out, encRes, via, result>>

\* Decoder::new(tree) and Decodable::decode, the rest of decode::<want>(out)
Decode ==
  /\ pc = "parsed"
  /\ want.k # "xml"
  /\ result' = decode(out, want)
  /\ pc' = "decoded"
  /\ UNCHANGED <<before, call, after, request, given, searched, val, want, out, encRes, via, tree>>

\* decode::<T>(&s) for the text of an integer of the type T
DecodeInt ==
  /\ pc = "parsed"
  /\ val.k = "int"
  /\ result' = decode(out, TInt(val.v.ty, Len(val.v.limbs)))
  /\ pc' = "decoded"
  /\ UNCHANGED <<before, call, after, request, given, searched, val, want, out, encRes, via, tree>>

\* one read of a Decoder whose stack is st; f of read_struct_field is
\* Decodable::decode for the type ty
Reading(st, c, r) ==
  /\ pc = "idle"
  /\ before' = st
  /\ call' = c
  /\ after' = r
  /\ pc' = "read"
  /\ UNCHANGED <<request, given, searched, val, want, out, encRes, via, tree, result>>

\* d.read_struct_field(name, _, Decodable::decode)
FieldRead(pre, name, ty) ==
  IF pre.res.r # "ok" THEN pre
  ELSE read_struct_field_end(pre.res.v, name, Decodable_decode(ty, pre.stack))

ReadStructField ==
  \E i \in 1..Len(Belows), j \in 1..Len(TopVals), name \in FieldNames, t \in 1..Len(FieldTypes) :
    Reading(Append(Belows[i], TopVals[j]),
            [op |-> "read_struct_field", name |-> name, ty |-> FieldTypes[t]],
            FieldRead(read_struct_field(Append(Belows[i], TopVals[j]), name), name, FieldTypes[t]))

\* d.read_map(f), up to the call of f
ReadMap ==
  \E i \in 1..Len(Belows), j \in 1..Len(TopVals) :
    Reading(Append(Belows[i], TopVals[j]), [op |-> "read_map"],
            read_map(Append(Belows[i], TopVals[j])))

\* d.read_i32()
ReadI32 ==
  \E i \in 1..Len(Belows), j \in 1..Len(TopVals) :
    Reading(Append(Belows[i], TopVals[j]), [op |-> "read_i32"],
            read_i32(Append(Belows[i], TopVals[j])))

\* d.read_enum_variant(names, f) for enum Animal, up to the call of f
ReadEnumVariant ==
  \E i \in 1..Len(Belows), j \in 1..Len(TopVals) :
    Reading(Append(Belows[i], TopVals[j]), [op |-> "read_enum_variant"],
            read_enum_variant(Append(Belows[i], TopVals[j]),
                              [v \in 1..Len(Animal) |-> Animal[v].name]))

\* Decodable::decode(&mut d) for the type ty, d a Decoder with the stack
\* given (Decoder::new(xml) for a stack of xml alone)
ReadValue ==
  \E i \in 1..Len(Belows), j \in 1..Len(TopVals), t \in 1..Len(ShapeTypes) :
    Reading(Append(Belows[i], TopVals[j]), [op |-> "decode", ty |-> ShapeTypes[t]],
            Decodable_decode(ShapeTypes[t], Append(Belows[i], TopVals[j])))

\* d.read_u8() .. d.read_i64()
ReadInt ==
  \E i \in 1..Len(Belows), j \in 1..Len(IntVals), t \in 1..Len(IntTypes) :
    Reading(Append(Belows[i], IntVals[j]), [op |-> "read_int", ty |-> IntTypes[t]],
            read_int(Append(Belows[i], IntVals[j]), IntTypes[t].v.ty, IntTypes[t].v.n))

\* d.read_seq(f), up to the call of f
ReadSeq ==
  \E i \in 1..Len(Belows), j \in 1..Len(TopVals) :
    Reading(Append(Belows[i], TopVals[j]), [op |-> "read_seq"],
            read_seq(Append(Belows[i], TopVals[j])))

\* d.read_tuple(tuple_len, f), up to the call of f
ReadTuple ==
  \E i \in 1..Len(Belows), j \in 1..Len(TopVals), n \in 0..MaxSeqLen :
    Reading(Append(Belows[i], TopVals[j]), [op |-> "read_tuple", len |-> n],
            read_tuple(Append(Belows[i], TopVals[j]), n))

\* d.read_option(f), up to the call of f
ReadOption ==
  \E i \in 1..Len(Belows), j \in 1..Len(TopVals) :
    Reading(Append(Belows[i], TopVals[j]), [op |-> "read_option"],
            read_option(Append(Belows[i], TopVals[j])))

\* xml.search(k) for an Xml value of the program
Search ==
  /\ pc = "idle"
  /\ \E i \in 1..Len(SearchVals), k \in FieldNames :
       /\ val' = NXml(SearchVals[i])
       /\ searched' = k
       /\ result' = Xml_search(SearchVals[i], k)
  /\ pc' = "searched"
  /\ UNCHANGED <<before, call, after, request, given, want, out, encRes, via, tree>>

\* let request = Request::new(method)
NewRequest ==
  /\ pc = "idle"
  /\ \E method \in Methods :
       /\ request' = Request_new(method)
       /\ given' = [method |-> method, args |-> <<>>, ends |-> 0]
  /\ pc' = "request"
  /\ UNCHANGED <<before, call, after, searched, val, want, out, encRes, via, tree, result>>

\* request = request.argument(&object); argument and finalize take and
\* return the Request by value, so either may follow a finalize ("reused")
Argument ==
  /\ pc \in {"request", "finalized", "reused"}
  /\ Len(given.args) < MaxArgs
  /\ \E i \in 1..Len(Arguments) :
       /\ request' = Request_argument(request, Arguments[i])
       /\ given' = [given EXCEPT !.args = Append(@, Arguments[i])]
  /\ pc' = IF pc = "request" THEN "request" ELSE "reused"
  /\ UNCHANGED <<before, call, after, searched, val, want, out, encRes, via, tree, result>>

\* request = request.finalize()
Finalize ==
  /\ pc \in {"request", "finalized", "reused"}
  /\ given.ends < MaxEnds
  /\ request' = Request_finalize(request)
  /\ given' = [given EXCEPT !.ends = @ + 1]
  /\ pc' = IF pc = "request" THEN "finalized" ELSE "reused"
  /\ UNCHANGED <<before, call, after, searched, val, want, out, encRes, via, tree, result>>

\* Response::new(body) for a body returned by the transport, around payload p
RespondWith(p) ==
  /\ pc = "idle"
  /\ val' = p
  /\ want' = TypeOf(p)
  /\ \E body \in {ResponseLines(encode(p)), ResponseCompact(encode(p)),
                  ResponseIndented(encode(p))} :
       out' = Response_new(body)
  /\ pc' = "response"
  /\ UNCHANGED <<before, call, after, request, given, searched, encRes, via, tree, result>>

Respond ==
  \/ \E n \in {1, 42} : RespondWith(NI32(n))
  \/ \E s \in SeqsUpTo({NI32(1), NI32(2)}, MaxSeqLen) : RespondWith(NVec(TI32, s))

\* response.result::<want>(0)
Result ==
  /\ pc = "response"
  /\ result' = Response_result(out, want)
  /\ pc' = "resulted"
  /\ UNCHANGED <<before, call, after, request, given, searched, val, want, out, encRes, via, tree>>

Next ==
  \/ EncodeScalar
  \/ EncodeSeq
  \/ EncodeRecord
  \/ EncodeImpl
  \/ EncodeMap
  \/ EncodeEnum
  \/ EncodeOption
  \/ EncodeXml
  \/ EncodeLib
  \/ EncodeInt
  \/ Receive
  \/ Parse
  \/ Decode
  \/ ReadStructField
  \/ ReadMap
  \/ ReadI32
  \/ ReadEnumVariant
  \/ ReadOption
  \/ ReadSeq
  \/ ReadInt
  \/ DecodeInt
  \/ ReadValue
  \/ ReadTuple
  \/ Search
  \/ NewRequest
  \/ Argument
  \/ Finalize
  \/ Respond
  \/ Result

Spec == Init /\ [][Next]_vars

(***************************************************************************)
(* Properties.  Helpers first: where a pattern occurs in a text, the text  *)
(* inside <string>...</string>, the keys of a Struct.                      *)
(***************************************************************************)
Occurrences(text, pat) ==
  {i \in 1..(Len(text) - Len(pat) + 1) : SubSeq(text, i, i + Len(pat) - 1) = pat}
Contains(text, pat) == Occurrences(text, pat) # {}
StartsWith(text, pat) == Len(text) >= Len(pat) /\ SubSeq(text, 1, Len(pat)) = pat
EndsWith(text, pat) ==
  Len(text) >= Len(pat) /\ SubSeq(text, Len(text) - Len(pat) + 1, Len(text)) = pat
\* the text between an opening tag of three units and its closing tag of four
Inside(text) == SubSeq(text, 4, Len(text) - 4)

Special == {"&", "<", ">"}
\* the string a String or char value stands for
TextOf(n) == IF n.k = "char" THEN <<n.v>> ELSE n.v
HasSpecial(v) == \E i \in 1..Len(v) : v[i] \in Special
\* no raw "<" or ">", and every "&" opens an entity reference
IsEscaped(content) ==
  \A i \in 1..Len(content) :
    /\ content[i] \notin {"<", ">"}
    /\ content[i] = "&" =>
         i + 2 <= Len(content) /\ content[i + 1] \in Entities /\ content[i + 2] = ";"

Keys(m) == [i \in 1..Len(m) |-> m[i].key]
DeclaredNames(n) == [i \in 1..Len(n.v) |-> n.v[i].name]

\* C1: every scalar (unit, bool, i32, finite f64, String of any length,
\* zero included) that is encoded, parsed and decoded comes back as the
\* same value.
C1_ScalarRoundTrip ==
  (pc = "decoded" /\ via = "encoding.rs" /\ val.k \in {"unit", "bool", "i32", "f64", "str"})
    => (result.r = "ok" /\ result.v.k = val.k /\ result.v = val)

\* C2: a String or char holding "&", "<" or ">" is written with those
\* characters escaped inside <string>...</string>, and the text written
\* parses back to the original string.
C2_EscapedRoundTrip ==
  (pc \in {"text", "parsed"} /\ val.k \in {"str", "char"} /\ HasSpecial(TextOf(val)))
    => /\ StartsWith(out, OpenTag("string")) /\ EndsWith(out, CloseTag("string"))
       /\ IsEscaped(Inside(out))
       /\ pc = "parsed" =>
            (tree.r = "ok" /\ tree.v.k = "String" /\ tree.v.v = TextOf(val))

\* C3: a sequence that is encoded, parsed and decoded comes back with the
\* same length and the same elements in the same order.
C3_ArrayOrderPreserved ==
  (pc = "decoded" /\ via = "encoding.rs" /\ val.k = "vec")
    => (result.r = "ok" /\ result.v.k = "vec" /\ result.v.v.items = val.v.items)

C5_MemberWithoutValue ==
  (pc = "parsed" /\ out = MemberNoValue) => (tree.r = "err" /\ tree.v.k = "SyntaxError")

\* the entries of a native map or of a Struct value
EntriesOf(n) == IF n.k = "map" THEN n.v.entries ELSE n.v.v

\* C6: a string-keyed map, a Struct value included, is written as
\* <struct>...</struct> with one <member> per entry; never as nothing.
C6_MapAsStruct ==
  (/\ pc = "text" /\ via = "encoding.rs"
   /\ (val.k = "map" \/ (val.k = "xml" /\ val.v.k = "Object")))
    => /\ StartsWith(out, OpenTag("struct")) /\ EndsWith(out, CloseTag("struct"))
       /\ Cardinality(Occurrences(out, OpenTag("member"))) = Len(EntriesOf(val))

\* C7: a variant without arguments is written as <string>Name</string>; a
\* variant with arguments as a <struct> with the two members "variant"
\* and "fields".
C7_EnumVariant ==
  (pc = "text" /\ via = "encoding.rs" /\ val.k = "enum")
    => IF val.v.args = <<>>
       THEN out = OpenTag("string") \o val.v.variants[val.v.idx].name \o CloseTag("string")
       ELSE /\ StartsWith(out, OpenTag("struct")) /\ EndsWith(out, CloseTag("struct"))
            /\ Cardinality(Occurrences(out, OpenTag("name") \o <<"variant">> \o CloseTag("name"))) = 1
            /\ Cardinality(Occurrences(out, OpenTag("name") \o <<"fields">> \o CloseTag("name"))) = 1

\* C8: Response::result returns the decoded payload of every well-formed
\* response, whatever the whitespace between the elements of the envelope.
C8_ResultAnyLayout ==
  (pc = "resulted") => (result.r = "ok" /\ IsSome(result.v) /\ result.v.v = val)

\* C9: <i4>N</i4> parses to the I32 value N, as <int>N</int> does.
C9_I4AsInt ==
  (pc = "parsed" /\ StartsWith(out, OpenTag("i4")) /\ EndsWith(out, CloseTag("i4")))
    => (tree.r = "ok" /\ tree.v.k = "I32" /\ fmt_i32(tree.v.v) = Inside(out))

\* C10: a DateTime or Base64 value is refused with a "not implemented"
\* error when it is encoded, and a <dateTime.iso8601> or <base64> element
\* is refused with such an error when it is parsed; neither is passed over
\* in silence.
C10_UnsupportedRejected ==
  /\ (pc = "text" /\ val.k = "xml" /\ val.v.k \in {"DateTime", "Base64"})
       => (encRes # "Ok" /\ out # <<>>)
  /\ (pc = "parsed" /\ (StartsWith(out, OpenTag("base64"))
                         \/ StartsWith(out, OpenTag("dateTime.iso8601"))))
       => (tree.r = "err" /\ tree.v.k = "NotImplemented")

\* the low 32 bits of an integer of another width, as two limbs
Low32(v) ==
  CASE v.ty = "i8" /\ v.limbs[1] >= 128 -> <<65280 + v.limbs[1], 65535>>
    [] v.ty = "i16" /\ v.limbs[1] >= 32768 -> <<v.limbs[1], 65535>>
    [] v.ty \in {"u8", "i8", "u16", "i16"} -> <<v.limbs[1], 0>>
    [] OTHER -> <<v.limbs[1], v.limbs[2]>>
\* the two's-complement pattern of an i32, as two limbs
PatternOf(n) == <<n % 65536, (n \div 65536) % 65536>>

\* C11: an integer of any other width is written as <int>V</int>, V being
\* the i32 whose bit pattern is the low 32 bits of the integer (sign- or
\* zero-extended when narrower); the emission succeeds for every value.
C11_IntCastTo32 ==
  (pc \in {"text", "parsed"} /\ val.k = "int")
    => /\ encRes = "Ok"
       /\ StartsWith(out, OpenTag("int"))
       /\ EndsWith(out, CloseTag("int"))
       /\ IsSome(parse_i32(Inside(out)))
       /\ fmt_i32(parse_i32(Inside(out)).v) = Inside(out)
       /\ PatternOf(parse_i32(Inside(out)).v) = Low32(val.v)

\* a u64 above the range of i32 has been written, as a negative number
C11_Witness ==
  /\ pc = "text"
  /\ val.k = "int"
  /\ val.v.ty = "u64"
  /\ val.v.limbs = <<0, 32768, 1, 0>>
  /\ out = OpenTag("int") \o <<"-", "2", "1", "4", "7", "4", "8", "3", "6", "4", "8">> \o CloseTag("int")

\* <member><name>N</name><value>V</value></member> for the field f
MemberText(f) ==
  OpenTag("member") \o OpenTag("name") \o f.name \o CloseTag("name")
    \o OpenTag("value") \o encode(f.val) \o CloseTag("value") \o CloseTag("member")

\* C12: a record is written as <struct>, then one
\* <member><name>N</name><value>V</value></member> per field in the order
\* of declaration, V being the encoding of the field's value, then </struct>.
C12_StructMembers ==
  (pc = "text" /\ via = "encoding.rs" /\ val.k = "struct")
    => out = OpenTag("struct") \o Flatten([i \in 1..Len(val.v) |-> MemberText(val.v[i])])
               \o CloseTag("struct")

\* the record { b: 1, a: 2 } has been written, b first
C12_Witness ==
  /\ pc = "text"
  /\ val.k = "struct"
  /\ DeclaredNames(val) = <<(<<"b">>), (<<"a">>)>>
  /\ out = OpenTag("struct")
            \o OpenTag("member") \o OpenTag("name") \o <<"b">> \o CloseTag("name")
            \o OpenTag("value") \o OpenTag("int") \o <<"1">> \o CloseTag("int")
            \o CloseTag("value") \o CloseTag("member")
            \o OpenTag("member") \o OpenTag("name") \o <<"a">> \o CloseTag("name")
            \o OpenTag("value") \o OpenTag("int") \o <<"2">> \o CloseTag("int")
            \o CloseTag("value") \o CloseTag("member")
            \o CloseTag("struct")

\* the i-th field requested is an i32 stored in the Struct parsed
Stored(i) ==
  /\ want.v[i].ty.k = "i32"
  /\ BTreeMap_contains(tree.v.v, want.v[i].name)
  /\ BTreeMap_get(tree.v.v, want.v[i].name).v.k = "I32"
\* the i-th field requested is optional and the Struct parsed has no entry for it
Absent(i) ==
  /\ want.v[i].ty.k = "option"
  /\ ~BTreeMap_contains(tree.v.v, want.v[i].name)
\* the i-th field of the record decoded is the i32 stored under its name
GotStored(i) ==
  /\ result.v.v[i].name = want.v[i].name
  /\ result.v.v[i].val.k = "i32"
  /\ result.v.v[i].val.v = BTreeMap_get(tree.v.v, want.v[i].name).v.v
\* the i-th field of the record decoded is None
GotNone(i) ==
  /\ result.v.v[i].name = want.v[i].name
  /\ result.v.v[i].val.k = "option"
  /\ IsNone(result.v.v[i].val.v.opt)
RequestedNames == [i \in 1..Len(want.v) |-> want.v[i].name]

\* C13: a Struct read as a record gives every field the value stored under
\* the field's name, in whatever order the fields are requested and the
\* members stored.
C13_OrderIndependent ==
  (/\ pc = "decoded" /\ want.k = "struct"
   /\ tree.r = "ok" /\ tree.v.k = "Object"
   /\ \A i \in 1..Len(want.v) : Stored(i))
    => /\ result.r = "ok" /\ result.v.k = "struct"
       /\ Len(result.v.v) = Len(want.v)
       /\ \A i \in 1..Len(want.v) : GotStored(i)

\* a Struct storing a before b has been read as a record that requests b
\* before a
C13_Witness ==
  /\ pc = "decoded" /\ want.k = "struct"
  /\ tree.r = "ok" /\ tree.v.k = "Object"
  /\ RequestedNames = <<(<<"b">>), (<<"a">>)>>
  /\ Keys(tree.v.v) = <<(<<"a">>), (<<"b">>)>>
  /\ \A i \in 1..2 : Stored(i)
  /\ result.r = "ok"

\* C16: a Struct without an entry for a field of optional type reads as a
\* record whose field is None, without error, and the other fields of the
\* record, before and after it, hold the values stored under their names.
C16_AbsentOptional ==
  (/\ pc = "decoded" /\ want.k = "struct"
   /\ tree.r = "ok" /\ tree.v.k = "Object"
   /\ \A i \in 1..Len(want.v) : Absent(i) \/ Stored(i)
   /\ \E i \in 1..Len(want.v) : Absent(i))
    => /\ result.r = "ok" /\ result.v.k = "struct"
       /\ Len(result.v.v) = Len(want.v)
       /\ \A i \in 1..Len(want.v) : IF Absent(i) THEN GotNone(i) ELSE GotStored(i)

\* the Struct { b: 1 } has been read as a record of an optional a and then b
C16_Witness ==
  /\ pc = "decoded" /\ want.k = "struct"
  /\ tree.r = "ok" /\ tree.v.k = "Object"
  /\ Keys(tree.v.v) = <<(<<"b">>)>>
  /\ RequestedNames = <<(<<"a">>), (<<"b">>)>>
  /\ Absent(1) /\ Stored(2)
  /\ result.r = "ok" /\ GotNone(1) /\ GotStored(2)

\* <array><data><value><int>1</int></value><value><int>2</int></value></data></array>
OneTwoText ==
  OpenTag("array") \o OpenTag("data")
    \o OpenTag("value") \o OpenTag("int") \o <<"1">> \o CloseTag("int") \o CloseTag("value")
    \o OpenTag("value") \o OpenTag("int") \o <<"2">> \o CloseTag("int") \o CloseTag("value")
    \o CloseTag("data") \o CloseTag("array")

\* C14: a sequence is written as <array><data>, then <value>E</value> per
\* element in order, E being the encoding of the element, then
\* </data></array>; the sequence [1, 2] is written as OneTwoText.
C14_SeqElements ==
  (pc = "text" /\ via = "encoding.rs" /\ val.k = "vec")
    => /\ out = OpenTag("array") \o OpenTag("data")
                 \o Flatten([i \in 1..Len(val.v.items) |->
                               OpenTag("value") \o encode(val.v.items[i]) \o CloseTag("value")])
                 \o CloseTag("data") \o CloseTag("array")
       /\ (val.v.elem.k = "i32" /\ val.v.items = <<NI32(1), NI32(2)>>) => out = OneTwoText

\* the sequence [1, 2] has been written
C14_Witness ==
  /\ pc = "text" /\ via = "encoding.rs" /\ val.k = "vec"
  /\ val.v.elem.k = "i32"
  /\ val.v.items = <<NI32(1), NI32(2)>>
  /\ out = OneTwoText

\* the variant names of the enum requested
VariantNames == [i \in 1..Len(want.v) |-> want.v[i].name]
\* what read_enum_variant hands to its closure for the String parsed
Selected == read_enum_variant(<<tree.v>>, VariantNames).res

\* C15: a String read as an enum is UnknownVariantError(name) when it is
\* none of the variant names; otherwise the index handed on is the index
\* of the variant of that name, and a variant without arguments is the
\* value decoded.
C15_UnknownVariant ==
  (/\ pc = "decoded" /\ want.k = "enum"
   /\ tree.r = "ok" /\ tree.v.k = "String")
    => IF \A i \in 1..Len(want.v) : VariantNames[i] # tree.v.v
       THEN /\ result.r = "err"
            /\ result.v.k = "UnknownVariantError"
            /\ result.v.v = tree.v.v
       ELSE /\ Selected.r = "ok"
            /\ Selected.v \in 0..(Len(want.v) - 1)
            /\ VariantNames[Selected.v + 1] = tree.v.v
            /\ want.v[Selected.v + 1].args = <<>>
                 => /\ result.r = "ok"
                    /\ result.v.k = "enum"
                    /\ result.v.v.idx = Selected.v + 1

\* <string>Bogus</string> has been read as enum Animal
C15_Witness ==
  /\ pc = "decoded" /\ want.k = "enum"
  /\ out = OpenTag("string") \o <<"Bogus">> \o CloseTag("string")
  /\ tree.r = "ok" /\ tree.v.k = "String"
  /\ result.r = "err" /\ result.v.k = "UnknownVariantError"
  /\ result.v.v = <<"Bogus">>

\* C17: the body of a finalized request is the XML declaration,
\* <methodCall><methodName>NAME</methodName><params>, one
\* <param>E</param> per argument in the order given, E being the encoding
\* of the argument, and </params></methodCall>.
C17_RequestBody ==
  (pc = "finalized")
    => /\ request.method = given.method
       /\ request.body =
            <<XmlDecl>> \o OpenTag("methodCall") \o OpenTag("methodName") \o given.method
              \o CloseTag("methodName") \o OpenTag("params")
              \o Flatten([i \in 1..Len(given.args) |->
                            OpenTag("param") \o encode(given.args[i]) \o CloseTag("param")])
              \o CloseTag("params") \o CloseTag("methodCall")

\* a request of two different arguments has been finalized
C17_Witness ==
  /\ pc = "finalized"
  /\ Len(given.args) = 2
  /\ given.args[1].k = "vec"
  /\ given.args[2].k = "i32"
  /\ Contains(request.body, CloseTag("array") \o CloseTag("param") \o OpenTag("param") \o OpenTag("int"))
  /\ EndsWith(request.body, CloseTag("param") \o CloseTag("params") \o CloseTag("methodCall"))

RECURSIVE At(_, _)
\* the value reached from x through the Struct members named by path
At(x, path) ==
  IF path = <<>> THEN Some(x)
  ELSE IF x.k # "Object" THEN None
  ELSE IF ~BTreeMap_contains(x.v, Head(path)) THEN None
  ELSE At(BTreeMap_get(x.v, Head(path)).v, Tail(path))

RECURSIVE XmlEq(_, _)
\* the same Xml value
XmlEq(a, b) ==
  /\ a.k = b.k
  /\ CASE a.k \in {"Null", "DateTime"} -> TRUE
       [] a.k = "Array" ->
            Len(a.v) = Len(b.v) /\ \A i \in 1..Len(a.v) : XmlEq(a.v[i], b.v[i])
       [] a.k = "Object" ->
            /\ Len(a.v) = Len(b.v)
            /\ \A i \in 1..Len(a.v) : a.v[i].key = b.v[i].key /\ XmlEq(a.v[i].val, b.v[i].val)
       [] OTHER -> a.v = b.v

\* the paths to the Structs nested in the values searched
MaxDepth == 3
Paths == SeqsUpTo(FieldNames, MaxDepth)
\* the value is stored under the key searched in the Struct at the path
StoredAt(path, v) ==
  /\ IsSome(At(val.v, path \o <<searched>>))
  /\ XmlEq(At(val.v, path \o <<searched>>).v, v)

\* C18: search(key) returns a value stored under the key in the receiver
\* or in a Struct nested in it through Struct members, the receiver's own
\* if it has one; it returns None when no such Struct has the key or the
\* receiver is not a Struct; it returns in every case.
C18_Search ==
  (pc = "searched")
    => /\ result.r \in {"some", "none"}
       /\ result.r = "some" => \E path \in Paths : StoredAt(path, result.v)
       /\ (result.r = "some" /\ IsSome(At(val.v, <<searched>>))) => StoredAt(<<>>, result.v)
       /\ result.r = "none" => \A path \in Paths : IsNone(At(val.v, path \o <<searched>>))
       /\ val.v.k # "Object" => result.r = "none"

\* a key of a nested Struct only has been searched and found
C18_Witness ==
  /\ pc = "searched"
  /\ val.v.k = "Object"
  /\ searched = <<"c">>
  /\ IsNone(At(val.v, <<searched>>))
  /\ IsSome(At(val.v, <<(<<"a">>), (<<"b">>), (<<"c">>)>>))
  /\ result.r = "some" /\ result.v.k = "I32" /\ result.v.v = 5

\* C19: build_array returns a value or an error for every text that opens
\* an array, a text that ends before </array> included.
C19_BuildArrayReturns ==
  (pc = "parsed" /\ StartsWith(out, OpenTag("array")))
    => build_array(Tokenize(out), bump(Tokenize(out), Builder_new)).res.r \in {"ok", "err"}

\* C20: when the tokenizer reports a failure anywhere in the text, from_str
\* returns a ParserError that wraps it: no value, no syntax error standing
\* for the end of the stream, no panic.
C20_FailureWrapped ==
  (pc = "parsed" /\ HasError(Tokenize(out)))
    => (tree.r = "err" /\ tree.v.k = "IoError")

\* the text of a value a member may hold in the struct texts
ValueTexts ==
  {IntText(1), IntText(2), IntText(3), OpenTag("struct") \o CloseTag("struct")} \cup GoodScalars
\* the length of the name at the head of t: units up to the next "<"
RECURSIVE NameLen(_)
NameLen(t) == IF t = <<>> \/ Head(t) = "<" THEN 0 ELSE 1 + NameLen(Tail(t))
Drop(t, n) == SubSeq(t, n + 1, Len(t))
IsNameText(name) == name # <<>> /\ \E i \in 1..Len(name) : name[i] \notin WhiteUnits

RECURSIVE Members(_)
\* t is zero or more members, each <member><name>N</name><value>V</value></member>
\* with nothing between the pieces, and then </struct>
Members(t) ==
  \/ t = CloseTag("struct")
  \/ /\ StartsWith(t, OpenTag("member") \o OpenTag("name"))
     /\ IsNameText(SubSeq(t, 7, 6 + NameLen(Drop(t, 6))))
     /\ \E v \in ValueTexts :
          /\ StartsWith(Drop(t, 6 + NameLen(Drop(t, 6))),
                        CloseTag("name") \o OpenTag("value") \o v
                          \o CloseTag("value") \o CloseTag("member"))
          /\ Members(Drop(t, 6 + NameLen(Drop(t, 6)) + 4 + 3 + Len(v) + 4 + 4))
WellFormedStruct(t) == StartsWith(t, OpenTag("struct")) /\ Members(Drop(t, 3))

\* what build_object returns for the text parsed
BuiltObject == build_object(Tokenize(out), bump(Tokenize(out), Builder_new)).res

\* C21: build_object returns a Struct for a text that is <struct>, members
\* of exactly the eight pieces in their order, </struct>, and for no
\* other: a piece that is missing, unknown or out of place at any position
\* gives a syntax error.
C21_StructGrammar ==
  (pc = "parsed" /\ want.k = "xml" /\ val.k = "none" /\ StartsWith(out, OpenTag("struct")))
    => IF WellFormedStruct(out)
       THEN BuiltObject.r = "ok" /\ BuiltObject.v.k = "Object"
       ELSE BuiltObject.r = "err" /\ BuiltObject.v.k = "SyntaxError"

\* a struct text with white space between two members has been parsed
C21_Witness ==
  /\ pc = "parsed"
  /\ out = Flatten(WithAfter(TwoMembers, 9, <<" ">>))
  /\ ~WellFormedStruct(out)
  /\ BuiltObject.r = "err" /\ BuiltObject.v.k = "SyntaxError"

\* the root value built from the text parsed, with the Builder after it
RootValue == build_value(Tokenize(out), bump(Tokenize(out), Builder_new))
\* no element and no character data from the event pos on
NothingLeft(ev, pos) ==
  \A i \in pos..Len(ev) : ev[i].e \notin {"StartElement", "EndElement", "Characters"}

\* C22: build returns the root value only if the stream holds nothing after
\* it, and a token of the Builder found right after the root value is a
\* panic, not a value returned.
C22_RootThenEnd ==
  (pc = "parsed")
    => /\ tree.r = "ok" => NothingLeft(Tokenize(out), RootValue.b.pos)
       /\ (RootValue.res.r # "hang" /\ IsSome(bump(Tokenize(out), RootValue.b).token))
            => tree.r = "panic"

\* character data inside <boolean> or <int> for which the classifier of
\* bump returns None
Unclassified(ev, i) ==
  /\ ev[i].e = "StartElement" /\ ev[i].x \in {"boolean", "int"}
  /\ i < Len(ev) /\ ev[i + 1].e = "Characters"
  /\ IsNone(parse_tag_characters(ev[i + 1].x, parse_tag_start(ev[i].x)))
HasUnclassified(ev) == \E i \in 1..Len(ev) : Unclassified(ev, i)

\* C23: a text with character data inside <boolean> or <int> that the
\* classifier rejects is never built into a value: from_str returns a
\* syntax error, or build stops on the token left behind by the failing
\* builder; it never returns Ok.
C23_UnclassifiedIsError ==
  (pc = "parsed" /\ HasUnclassified(Tokenize(out)))
    => \/ tree.r = "err" /\ tree.v.k = "SyntaxError"
       \/ tree.r = "panic"
\* the entries of the Struct m under the name key
EntriesUnder(m, key) == {i \in 1..Len(m) : m[i].key = key}

\* C24: a struct text with the member name "a" twice, the values m and n
\* in that order, is built into a Struct with exactly one entry "a", which
\* holds n, beside the one entry "b".
C24_LastWriteWins ==
  \A m, n \in {1, 2} :
    (pc = "parsed" /\ out = NameTwice(m, n))
      => /\ tree.r = "ok" /\ tree.v.k = "Object"
         /\ Len(tree.v.v) = 2
         /\ Cardinality(EntriesUnder(tree.v.v, <<"a">>)) = 1
         /\ \A i \in EntriesUnder(tree.v.v, <<"a">>) :
               tree.v.v[i].val.k = "I32" /\ tree.v.v[i].val.v = n

\* the text with a = 1, b = 3, a = 2 has been built: a is 2
C24_Witness ==
  /\ pc = "parsed"
  /\ out = NameTwice(1, 2)
  /\ tree.r = "ok" /\ tree.v.k = "Object"
  /\ \E i \in 1..Len(tree.v.v) :
       tree.v.v[i].key = <<"a">> /\ tree.v.v[i].val.k = "I32" /\ tree.v.v[i].val.v = 2
\* a field read has been made on a Struct
FieldReadOnStruct ==
  /\ pc = "read" /\ call.op = "read_struct_field"
  /\ Top(before).k = "Object"
FieldAbsent == ~BTreeMap_contains(Top(before).v, call.name)
\* r returns what the inner read returned, or MissingField(name) if that failed
InnerOrMissing(inner, r, name) ==
  IF inner.res.r = "ok" THEN r.res.r = "ok" /\ r.res.v = inner.res.v
  ELSE r.res.r = "err" /\ r.res.v.k = "MissingFieldError" /\ r.res.v.v = name

\* C25: read_struct_field(name) on a Struct without an entry name runs the
\* inner read on a Null pushed in its place; it returns the result of that
\* read if it succeeds and MissingField(name) if it fails, whatever its error.
C25_MissingField ==
  (FieldReadOnStruct /\ FieldAbsent)
    => InnerOrMissing(Decodable_decode(call.ty, Append(Rest(before), XmlNull)), after, call.name)

\* the field c of { a: 1 } has been read as an i32: the inner read failed
\* with an expected/found mismatch and the read with MissingField(c)
C25_Witness ==
  /\ FieldReadOnStruct /\ FieldAbsent
  /\ call.name = <<"c">> /\ call.ty = TI32
  /\ Keys(Top(before).v) = <<(<<"a">>)>>
  /\ read_i32(Append(Rest(before), XmlNull)).res.v.k = "ExpectedError"
  /\ after.res.r = "err" /\ after.res.v.k = "MissingFieldError" /\ after.res.v.v = <<"c">>
Popped(st, i) == st[Len(st) + 1 - i]
\* the pops 2i-1 and 2i of st give the key of the entry e as a String, then
\* its value
PopsEntry(st, i, e) ==
  /\ Popped(st, 2 * i - 1).k = "String" /\ Popped(st, 2 * i - 1).v = e.key
  /\ XmlEq(Popped(st, 2 * i), e.val)

\* C27: read_map on a Struct of n entries hands n to f with a stack whose
\* next 2n pops give the entries in the order of the Struct, each key as a
\* String and then its value, above the stack that was below the Struct.
C27_MapEntriesInOrder ==
  (pc = "read" /\ call.op = "read_map" /\ Top(before).k = "Object")
    => /\ after.res.r = "ok" /\ after.res.v = Len(Top(before).v)
       /\ Len(after.stack) = Len(before) - 1 + 2 * Len(Top(before).v)
       /\ \A i \in 1..Len(Top(before).v) : PopsEntry(after.stack, i, Top(before).v[i])
\* an optional minus sign and then one or more decimal digits
DecimalText(s) ==
  /\ s # <<>>
  /\ Len(s) > (IF Head(s) = "-" THEN 1 ELSE 0)
  /\ \A i \in (IF Head(s) = "-" THEN 2 ELSE 1)..Len(s) : IsDigit(s[i])
Mismatch(r) == r.res.r = "err" /\ r.res.v.k = "ExpectedError"

\* C28: read_i32 returns Ok only for an I32 (its value) or for a String
\* that is a decimal integer; for an F64 it returns the expected/found
\* error naming the float, never a number; for a String that is no integer
\* and for every other variant it returns an expected/found error.
C28_IntegerRead ==
  (pc = "read" /\ call.op = "read_i32")
    => CASE Top(before).k = "I32" -> after.res.r = "ok" /\ after.res.v = Top(before).v
         [] Top(before).k = "F64" ->
              /\ Mismatch(after)
              /\ after.res.v.v.expected = "Integer"
              /\ after.res.v.v.found = fmt_f64(Top(before).v)
         [] Top(before).k = "String" ->
              IF DecimalText(Top(before).v) THEN after.res.r = "ok" ELSE Mismatch(after)
         [] OTHER -> Mismatch(after)

\* read_i32 has been called on the float 2.0 and has failed
C28_Witness ==
  /\ pc = "read" /\ call.op = "read_i32"
  /\ Top(before).k = "F64" /\ Top(before).v.ip = 2 /\ Top(before).v.fp = 0
  /\ Mismatch(after) /\ after.res.v.v.expected = "Integer"
AnimalNames == [v \in 1..Len(Animal) |-> Animal[v].name]
\* the Struct m names a variant of Animal and holds its fields
NamesVariant(m) ==
  /\ BTreeMap_contains(m, <<"variant">>)
  /\ BTreeMap_get(m, <<"variant">>).v.k = "String"
  /\ \E v \in 1..Len(AnimalNames) : AnimalNames[v] = BTreeMap_get(m, <<"variant">>).v.v
HoldsFields(m) ==
  /\ BTreeMap_contains(m, <<"fields">>)
  /\ BTreeMap_get(m, <<"fields">>).v.k = "Array"
FieldsOf(m) == BTreeMap_get(m, <<"fields">>).v.v
DecoderErrors == {"ExpectedError", "MissingFieldError", "UnknownVariantError"}

\* C29: read_enum_variant on a Struct selects a variant only if the Struct
\* holds a String under "variant" that is one of the names and an Array
\* under "fields"; it then hands f the index of that name with the fields on
\* the stack so that they pop first to last.  A Struct without one of the
\* two, or with another kind of value there, and a top value that is neither
\* a String nor a Struct give a DecoderError and no index.
C29_VariantOfStruct ==
  (pc = "read" /\ call.op = "read_enum_variant" /\ Top(before).k # "String")
    => IF Top(before).k = "Object" /\ NamesVariant(Top(before).v) /\ HoldsFields(Top(before).v)
       THEN /\ after.res.r = "ok"
            /\ AnimalNames[after.res.v + 1] = BTreeMap_get(Top(before).v, <<"variant">>).v.v
            /\ Len(after.stack) = Len(before) - 1 + Len(FieldsOf(Top(before).v))
            /\ \A i \in 1..Len(FieldsOf(Top(before).v)) :
                  XmlEq(Popped(after.stack, i), FieldsOf(Top(before).v)[i])
       ELSE after.res.r = "err" /\ after.res.v.k \in DecoderErrors

\* { variant: "a", fields: [1, 2] } has been read: the third variant, with 1
\* popped before 2
C29_Witness ==
  /\ pc = "read" /\ call.op = "read_enum_variant"
  /\ Top(before).k = "Object" /\ NamesVariant(Top(before).v) /\ HoldsFields(Top(before).v)
  /\ Len(FieldsOf(Top(before).v)) = 2
  /\ after.res.r = "ok" /\ after.res.v = 2
  /\ Popped(after.stack, 1).v = 1 /\ Popped(after.stack, 2).v = 2
\* the stacks s and t hold the same values
SameStack(s, t) == Len(s) = Len(t) /\ \A i \in 1..Len(s) : XmlEq(s[i], t[i])

\* C30: read_option on a stack whose top is Null calls f with false on the
\* stack without that Null; on any other top it calls f with true on the
\* stack as it was.
C30_OptionRead ==
  (pc = "read" /\ call.op = "read_option")
    => /\ after.res.r = "ok"
       /\ IF Top(before).k = "Null"
          THEN ~after.res.v /\ SameStack(after.stack, Rest(before))
          ELSE after.res.v /\ SameStack(after.stack, before)

\* read_option has been called on a Null above two other entries: false,
\* and the two entries are the stack
C30_Witness ==
  /\ pc = "read" /\ call.op = "read_option"
  /\ Len(before) = 3 /\ Top(before).k = "Null"
  /\ after.res.r = "ok" /\ ~after.res.v
  /\ Len(after.stack) = 2 /\ Top(after.stack).k = "Object"
\* the stack st holds, where the top of the stack was before the read, the
\* value that was there
StillHolds(st) == Len(st) >= Len(before) /\ XmlEq(st[Len(before)], Top(before))

\* C31: a struct_field, sequence, tuple or enum_variant read that fails does
\* not put back the value it popped: the stack it leaves does not hold the
\* Struct or Array (or the value found in their place) where it was.
C31_FailedReadConsumes ==
  (/\ pc = "read"
   /\ call.op \in {"read_struct_field", "read_seq", "read_tuple", "read_enum_variant"}
   /\ after.res.r = "err")
    => ~StillHolds(after.stack)

\* the field a of { a: "x", c: .. } has been read as an i32 and has failed:
\* the Struct is no longer on the stack
C31_Witness ==
  /\ pc = "read" /\ call.op = "read_struct_field"
  /\ call.name = <<"a">> /\ call.ty = TI32
  /\ Top(before).k = "Object" /\ Keys(Top(before).v) = <<(<<"a">>), (<<"c">>)>>
  /\ after.res.r = "err" /\ after.res.v.k = "ExpectedError"
  /\ Len(after.stack) = Len(before) - 1
\* a value has been decoded by a Decoder made for it alone
DecodedAlone == pc = "read" /\ call.op = "decode" /\ Len(before) = 1

\* C32: decoding a value with a Decoder made for it ends in Ok or in a
\* DecoderError, whatever the type asked for; pop is never called on the
\* empty stack.
C32_NoEmptyPop ==
  DecodedAlone => after.res.r \in {"ok", "err"}

CompositeKinds == {"struct", "vec", "map", "enum", "option"}

\* C33: a struct, sequence, map, enum or option read that succeeds leaves
\* the stack as it was below the value read, with nothing left of that
\* value; a Decoder made for the value alone ends empty.
C33_ConsumesOneValue ==
  (pc = "read" /\ call.op = "decode" /\ call.ty.k \in CompositeKinds /\ after.res.r = "ok")
    => SameStack(after.stack, Rest(before))

RECURSIVE MatchingEnd(_, _, _)
\* the index of the EndElement that closes the element opened before the
\* event i, depth elements being open inside it; 0 if there is none
MatchingEnd(ev, i, depth) ==
  IF i > Len(ev) THEN 0
  ELSE IF ev[i].e = "StartElement" THEN MatchingEnd(ev, i + 1, depth + 1)
  ELSE IF ev[i].e = "EndElement"
  THEN IF depth = 0 THEN i ELSE MatchingEnd(ev, i + 1, depth - 1)
  ELSE MatchingEnd(ev, i + 1, depth)

\* C34: for a text whose root is <array>, build_array returns Ok only with
\* the </array> of that <array> as the last event read, whatever stands
\* between them.
C34_ArrayEndsAtItsClose ==
  (pc = "parsed" /\ StartsWith(out, OpenTag("array")) /\ RootValue.res.r = "ok")
    => RootValue.b.pos = MatchingEnd(Tokenize(out), 3, 0) + 1

\* C35: an integer of another width that is encoded, parsed and decoded as
\* its own type comes back as itself or not at all (a DecoderError): never
\* as another integer.
C35_IntRoundTrip ==
  (pc = "decoded" /\ val.k = "int")
    => \/ result.r = "err"
       \/ result.r = "ok" /\ result.v.k = "int" /\ result.v.v.limbs = val.v.limbs

\* the least and the greatest i32 that the integer type ty holds
MinOf(ty) ==
  CASE ty \in UnsignedTypes -> 0 [] ty = "i8" -> -128 [] ty = "i16" -> -32768 [] OTHER -> I32_MIN
MaxOf(ty) ==
  CASE ty = "u8" -> 255 [] ty = "i8" -> 127 [] ty = "u16" -> 65535 [] ty = "i16" -> 32767
    [] OTHER -> I32_MAX
\* the integer x of the type ty is the number v
IsNumber(x, v) ==
  /\ x.ty \in UnsignedTypes => v >= 0
  /\ as_i32(x.ty, x.limbs) = v
  /\ Len(x.limbs) = 4 => x.limbs[3] = x.limbs[4] /\ x.limbs[3] = (IF v < 0 THEN 65535 ELSE 0)

\* C40: reading I32(v) as an integer type other than i32 returns v if the
\* type holds v, and an expected/found error if it does not; it never
\* returns another number.
C40_NarrowRead ==
  (pc = "read" /\ call.op = "read_int" /\ Top(before).k = "I32")
    => IF MinOf(call.ty.v.ty) <= Top(before).v /\ Top(before).v <= MaxOf(call.ty.v.ty)
       THEN after.res.r = "ok" /\ IsNumber(after.res.v, Top(before).v)
       ELSE Mismatch(after)

\* I32(256) has been read as a u8, and has failed
C40_Witness ==
  /\ pc = "read" /\ call.op = "read_int" /\ call.ty.v.ty = "u8"
  /\ Top(before).k = "I32" /\ Top(before).v = 256
  /\ Mismatch(after) /\ after.res.v.v.found = <<"2", "5", "6">>

\* C36: read_struct_field(name) on a Struct without an entry name returns
\* MissingField(name) whenever the field is read as a type that is no Option.
C36_AbsentIsMissing ==
  (FieldReadOnStruct /\ FieldAbsent /\ call.ty.k # "option")
    => after.res.r = "err" /\ after.res.v.k = "MissingFieldError" /\ after.res.v.v = call.name

\* C37: a record written by the Encoder, by a derived impl or a hand-written
\* one, parses again, to a Struct that has an entry under every field name
\* of the record, whatever characters the names hold.
C37_NamesEscaped ==
  (pc = "parsed" /\ via = "encoding.rs" /\ val.k \in {"struct", "impl"})
    => /\ tree.r = "ok" /\ tree.v.k = "Object"
       /\ \A i \in 1..Len(val.v) : BTreeMap_contains(tree.v.v, val.v[i].name)

\* C38: after new and any calls of argument and finalize, the body of the
\* request holds </params></methodCall> at most once, and no <param>
\* after it.
C38_ClosedOnce ==
  (pc \in {"request", "finalized", "reused"})
    => /\ Cardinality(Occurrences(request.body, CloseTag("params") \o CloseTag("methodCall"))) <= 1
       /\ \A i \in Occurrences(request.body, CloseTag("params") \o CloseTag("methodCall")) :
            \A j \in Occurrences(request.body, OpenTag("param")) : j < i

\* the event that bump turned into the current token of b
TokenEvent(ev, b) == b.pos - 1

\* C39: build_value fails with EOFWhileParsingValue only where the parser
\* has no element and no character data left to give: the event its token
\* came from is neither an element nor character data.
C39_EofOnlyAtEnd ==
  (pc = "parsed" /\ RootValue.res.r = "err"
     /\ RootValue.res.v = SyntaxError(EOFWhileParsingValue))
    => NothingLeft(Tokenize(out), TokenEvent(Tokenize(out), RootValue.b))
====
